---- MODULE Spec2Model ----
(***************************************************************************)
(* Alert Dispatch Engine of citizen-safety-server.                         *)
(*                                                                         *)
(* The model follows the Alerts Service with the two-phase createAlert     *)
(* (src/services/alerts-service/index.js), its status handlers that go     *)
(* through _updateAlertStatus, the background timeout processor            *)
(* (src/unnamed/part_002, processTimeouts) with the Database Service       *)
(* handler it calls (src/services/database-service/index.js), and the      *)
(* message-queue client (src/unnamed/part_000).                            *)
(*                                                                         *)
(* Further specifications of the module: MonoSpec, the monolith            *)
(* (src/index.js); GeoSpec, the Location Service with findNearbyResponders *)
(* (src/unnamed/part_009); WsSpec, the WebSocket Service                   *)
(* (src/services/websocket-service/index.js) with the alerts table it      *)
(* reads and the queues of its subscriptions; BusSpec, the publishers and  *)
(* the consumers of those queues alone; RouteSpec, the routing of a        *)
(* geohash event to the subscribers of the WebSocket Service;              *)
(* ConsumersSpec, the WebSocket Service with the Notifications Service     *)
(* (src/services/notifications-service/index.js); MqSpec and MqFairSpec,   *)
(* the connections, bindings and queues of the message-queue client;       *)
(* AuthSpec, the firefighter login of the Auth Service                     *)
(* (src/services/auth-service/index.js); BroadcastSpec, the full-list      *)
(* broadcasts of the monolith to its WebSocket clients.                    *)
(*                                                                         *)
(* Every await of a handler is a point where other handlers may run, so a  *)
(* handler is split into one action per stretch of code between awaits on  *)
(* the store.  A store call (db.run, db.get, a request to the Database     *)
(* Service) either succeeds or throws: the storeOk input of the action.    *)
(***************************************************************************)
EXTENDS Integers, Sequences, FiniteSets, Bags, TLC

\* ---------------------------------------------------------------- bounds
\* alerts created in a run
MaxAlerts == 1
\* accept / resolve / cancel requests that are in flight at the same time
MaxReqs == 1
\* steps of the clock, each as long as the timeout window
MaxTicks == 1

\* alerts the monolith creates in a run
MaxMonoAlerts == 2
\* alerts in the table of the monolith at the same time
MaxLive == 1
\* accept / resolve / cancel handlers of the monolith in flight at a time
MaxMonoReqs == 1

\* WebSocket connections opened in a run
MaxConns == 1
\* events published on the message queue in a run of the WebSocket Service
MaxWsEvents == 1
\* events published on the message queue in a run of the publishers and the
\* consumers alone
MaxEvents == 3
\* subscribe messages a connection sends
MaxSubscribes == 1

\* WebSocket connections opened in a run of the routing of events alone
MaxRouteConns == 2
\* events published in such a run
MaxRouteEvents == 1

\* broadcastAlerts calls of the monolith that await their SELECT at a time
MaxBroadcasts == 2
\* WebSocket connections to the monolith in a run
MaxMonoConns == 1

\* login requests of firefighters in flight at the same time
MaxLogins == 2

\* publish calls of the Alerts Service in a run of the message-queue client
MaxMqMessages == 2

\* ------------------------------------------------------------- constants
TIMEOUT_MS == 30 * 1000

NULL == "NULL"
UNDEFINED == "undefined"
DEFAULT_CATEGORY == "Law & Order"

\* enum of emergencyClassificationSchema
ValidCategories ==
    {"Law & Order", "Fire & Rescue", "Medical Emergency", "Traffic Incident"}

\* what aiResult.category can be when the Classifier answers 200 with JSON:
\* a category of the schema or no such field
AiCategoryValues == {"Law & Order", "Fire & Rescue", UNDEFINED}

\* what the responderIds field of a 200 response of find-nearby can be
ResponderIdsValues == {{}, {"728"}, {UNDEFINED}}

Officers == {"728", "551"}
AlertIds == 1..MaxAlerts

\* a row that does not exist in the alerts table
NoAlert == [status |-> "absent"]

\* the targetedOfficers column when it was never written (SQL NULL)
NullColumn == {NULL}

\* unit numbers of the firefighters table
FireUnits == {"E1", "E2"}

\* SQL NULL in a REAL column: a number that is no coordinate
NullReal == -1

\* locationLat and locationLng of a responder that never reported a location
NoLocation == [locationLat |-> NullReal, locationLng |-> NullReal]

\* a request body without a location field
NoLocationField == [missing |-> TRUE]

\* no request to the Geo-Matcher was answered by the latest step
NoGeoOut == [op |-> "none", code |-> 0]

Conns == 1..MaxConns

\* the connections of a run of the routing of events alone
RouteConns == 1..MaxRouteConns

AllConns == Conns \cup RouteConns
DbAlertIds == {1}
Geohashes == {"g1", "g2"}

\* the message types of the three subscriptions of the WebSocket Service
Subscriptions == {"alert_created", "alert_updated", "alert_deleted"}

\* clientMetadata.get(ws) of a connection that has no entry
NoMetadata == [absent |-> TRUE]

\* the latest step sent nothing on any connection
NoWsOut == [op |-> "none", ws |-> 0, sends |-> {}]

\* the WebSocket connections of the monolith in a run
MonoConns == 1..MaxMonoConns

\* no 'alerts' message was sent on the connection
NoAlertsMessage == [sent |-> FALSE, payload |-> {}]

\* the login requests of a run
LoginRequests == 1..MaxLogins

\* a request that was not made or is answered
NoLogin == [pc |-> "none", unitNumber |-> NULL]

NoLoginOut == [request |-> 0, code |-> 0, unitNumber |-> NULL]

\* no push notification went out
NoPush == [op |-> "none", to |-> {}]

\* the processes that call subscribe() in their initialize: the Notifier
\* (src/services/notifications-service/index.js), its older copy
\* (src/unnamed/part_006) and the older WebSocket Service (src/unnamed/part_007)
MqSubscribers == {"notifications-service", "part_006", "part_007"}

\* the process that publishes: the Alerts Service
MqPublisher == "alerts-service"

MqProcs == {MqPublisher} \cup MqSubscribers

\* the routing keys the Alerts Service publishes with
MqRoutingKeys == {<<"alert", "created">>, <<"alert", "broadcast">>}

VARIABLES
    alerts,         \* the alerts table: id -> row or NoAlert
    nextId,         \* AUTOINCREMENT counter: the id the next INSERT gets
    now,            \* Date.now()
    channel,        \* the message-queue channel is available
    reqs,           \* bag of accept / resolve / cancel requests between
                    \* their UPDATE and their SELECT
    bg,             \* background phase of createAlert, per alert
    sweep,          \* the timeout processor and the store request it makes
    out,            \* what the latest step sent: the HTTP response (code 0:
                    \* none) and whether 'alert.broadcast' was published
    createResp,     \* the response createAlert gave, per alert created
    createdEvents   \* 'alert.created' messages published, per alert

\* the monolith (src/index.js): its own database, timers and handlers
VARIABLES
    monoAlerts,     \* the alerts table of the monolith: id -> row or NoAlert
    monoNextId,     \* its AUTOINCREMENT counter
    alertTimers,    \* per alert: the escalation and the timeout timer
    monoReqs,       \* accept / resolve / cancel handlers between their awaits
    monoOut,        \* what the latest step of the monolith sent
    broadcasts      \* broadcastAlerts calls that await their SELECT

monoVars == <<monoAlerts, monoNextId, alertTimers, monoReqs, monoOut,
              broadcasts>>

svcVars == <<alerts, nextId, now, channel, reqs, bg, sweep, out, createResp,
             createdEvents>>

\* the Geo-Matcher (src/unnamed/part_009) and the responder tables of the
\* Database Service it reads
VARIABLES
    police,         \* the police table: badgeNumber -> location columns
    firefighters,   \* the firefighters table: unitNumber -> location columns
    geoOut          \* what the latest request to the Geo-Matcher answered

geoVars == <<police, firefighters, geoOut>>

\* the WebSocket Service (src/services/websocket-service/index.js), the
\* queues of its subscriptions and the alerts table of the Database Service
\* it reads
VARIABLES
    dbAlerts,       \* the alerts table with its geohash column
    wssClients,     \* per connection: not yet made, open or closed
    clientMetadata, \* the Map of the same name: connection -> metadata
    subscribed,     \* subscribe messages a connection sent so far
    fetches,        \* the sendInitialAlerts calls that await their request
    published,      \* the events published so far, in publish order
    queues,         \* per subscription: its queue at the broker
    handled,        \* per subscription: the messages its callback was called
                    \* with, in that order
    wsLog,          \* per connection: the messages sent on it so far
    wsOut           \* the handler the latest step ran and what it sent

wsVars == <<dbAlerts, wssClients, clientMetadata, subscribed, fetches,
            published, queues, handled, wsLog, wsOut>>

\* the message-queue client (src/unnamed/part_000) in each process that uses
\* it, and the broker
VARIABLES
    brokerUp,       \* the RabbitMQ server accepts connections
    mqClients,      \* per process: where its client module stands
    mqBound,        \* the subscribers whose exclusive queue exists
    mqQueues,       \* per subscriber: the messages in its queue
    mqDelivered,    \* per subscriber: the messages its callback was called
                    \* with, in that order
    mqSent          \* publish calls made so far

mqVars == <<brokerUp, mqClients, mqBound, mqQueues, mqDelivered, mqSent>>

\* the Notifier (src/services/notifications-service/index.js) and the queue
\* of its subscription
VARIABLES
    notifierQueue,  \* the queue bound with 'alert.created'
    notifierCalls,  \* the handleAlertCreated calls that await their request
    notifierOut     \* what the latest step of the Notifier pushed

notifierVars == <<notifierQueue, notifierCalls, notifierOut>>

\* the login of a firefighter: loginOrRegisterFirefighter
\* (src/services/auth-service/index.js) and the firefighters table
VARIABLES
    firefighterRows,    \* the unitNumber column of the firefighters table
    logins,             \* per request: where its handler stands
    loginOut            \* what the latest step of a login answered

authVars == <<firefighterRows, logins, loginOut>>

\* the WebSocket clients of the monolith (src/index.js)
VARIABLES
    clients,        \* per connection: not yet made, open or closed
    monoMetadata,   \* the Map clientMetadata of the monolith
    lastAlerts      \* per connection: the latest 'alerts' message sent on it

monoWsVars == <<clients, monoMetadata, lastAlerts>>

\* the variables of the components added after the Notifier
lateVars == <<authVars, monoWsVars>>

\* the variables of the components added after the WebSocket Service
moreVars == <<mqVars, notifierVars, lateVars>>

\* the variables of the components other than the Alerts Service and the
\* monolith
extVars == <<geoVars, wsVars, moreVars>>

\* every variable that is not one of the Geo-Matcher
otherThanGeoVars == <<svcVars, monoVars, wsVars, moreVars>>

\* every variable that is not one of the WebSocket Service
otherThanWsVars == <<svcVars, monoVars, geoVars, moreVars>>

\* every variable that is not one of the message-queue client and the broker
otherThanMqVars == <<svcVars, monoVars, geoVars, wsVars, notifierVars,
                     lateVars>>

\* every variable that is neither one of the WebSocket Service nor one of the
\* Notifier
otherThanConsumerVars == <<svcVars, monoVars, geoVars, mqVars, lateVars>>

\* every variable that is not one of the login of a firefighter
otherThanAuthVars == <<svcVars, monoVars, geoVars, wsVars, mqVars,
                       notifierVars, monoWsVars>>

vars == <<alerts, nextId, now, channel, reqs, bg, sweep, out, createResp,
          createdEvents, monoAlerts, monoNextId, alertTimers, monoReqs,
          monoOut, broadcasts, extVars>>

Exists(id) == alerts[id] # NoAlert

\* a value bound to a statement parameter: undefined is left unbound (NULL)
sqlBind(v) == IF v = UNDEFINED THEN NULL ELSE v

Out(op, code, broadcast) == [op |-> op, code |-> code, broadcast |-> broadcast]

Silent == Out("none", 0, FALSE)

IdleBg ==
    [pc |-> "none", category |-> NULL, targetedOfficers |-> {},
     aiBody |-> NULL, geo |-> "none", result |-> "none"]

IdleSweep == [pc |-> "idle", ids |-> {}, returned |-> {}]

NoResp == [code |-> 0]

MonoIds == 1..MaxMonoAlerts

\* no setTimeout was called for the alert
NoTimers == [escalationTimer |-> "absent", timeoutTimer |-> "absent"]

Init ==
    /\ alerts = [i \in AlertIds |-> NoAlert]
    /\ nextId = 1
    /\ now = 0
    /\ channel = TRUE
    /\ reqs = EmptyBag
    /\ bg = [i \in AlertIds |-> IdleBg]
    /\ sweep = IdleSweep
    /\ out = Silent
    /\ createResp = [i \in AlertIds |-> NoResp]
    /\ createdEvents = [i \in AlertIds |-> <<>>]
    /\ monoAlerts = [i \in MonoIds |-> NoAlert]
    /\ monoNextId = 1
    /\ alertTimers = [i \in MonoIds |-> NoTimers]
    /\ monoReqs = {}
    /\ monoOut = Silent
    /\ police = [b \in Officers |-> NoLocation]
    /\ firefighters = [u \in FireUnits |-> NoLocation]
    /\ geoOut = NoGeoOut
    /\ dbAlerts = [i \in DbAlertIds |-> NoAlert]
    /\ wssClients = [c \in AllConns |-> "none"]
    /\ clientMetadata = [c \in AllConns |-> NoMetadata]
    /\ subscribed = [c \in AllConns |-> 0]
    /\ fetches = {}
    /\ published = <<>>
    /\ queues = [s \in Subscriptions |-> <<>>]
    /\ handled = [s \in Subscriptions |-> <<>>]
    /\ wsLog = [c \in AllConns |-> <<>>]
    /\ wsOut = NoWsOut
    /\ brokerUp = TRUE
    /\ mqClients = [p \in MqProcs |-> "new"]
    /\ mqBound = {}
    /\ mqQueues = [s \in MqSubscribers |-> <<>>]
    /\ mqDelivered = [s \in MqSubscribers |-> <<>>]
    /\ mqSent = 0
    /\ notifierQueue = <<>>
    /\ notifierCalls = {}
    /\ notifierOut = NoPush
    /\ firefighterRows = {}
    /\ logins = [r \in LoginRequests |-> NoLogin]
    /\ loginOut = NoLoginOut
    /\ broadcasts = 0
    /\ clients = [c \in MonoConns |-> "none"]
    /\ monoMetadata = [c \in MonoConns |-> NoMetadata]
    /\ lastAlerts = [c \in MonoConns |-> NoAlertsMessage]

\* ------------------------------------------------------------ environment
Tick ==
    /\ now + TIMEOUT_MS <= MaxTicks * TIMEOUT_MS
    /\ now' = now + TIMEOUT_MS
    /\ out' = Silent
    /\ UNCHANGED <<alerts, nextId, channel, reqs, bg, sweep, createResp,
                   createdEvents,
                   monoVars, extVars>>

\* connection.on('close'): channel = null
connectionClose ==
    /\ channel
    /\ channel' = FALSE
    /\ out' = Silent
    /\ UNCHANGED <<alerts, nextId, now, reqs, bg, sweep, createResp,
                   createdEvents,
                   monoVars, extVars>>

\* connect(): channel = await connection.createChannel()
connect ==
    /\ ~channel
    /\ channel' = TRUE
    /\ out' = Silent
    /\ UNCHANGED <<alerts, nextId, now, reqs, bg, sweep, createResp,
                   createdEvents,
                   monoVars, extVars>>

\* publish(routingKey, message): TRUE iff the message went to the exchange
publish == channel

\* --------------------------------------------------------- createAlert
\* the record createAlert inserts; the columns it does not name are NULL
newAlertData(timestamp) ==
    [status |-> "new", acceptedBy |-> NULL, category |-> NULL,
     targetedOfficers |-> NullColumn, timestamp |-> timestamp,
     timeoutTimestamp |-> timestamp + TIMEOUT_MS]

\* a createAlert that starts the calls to the Classifier and the Geo-Matcher
\* without having answered the client
createAlertAnswerLast(citizenId, location, storeOk) ==
    IF citizenId = NULL \/ location = NULL
    THEN /\ out' = Out("create", 400, FALSE)
         /\ UNCHANGED <<alerts, nextId, now, channel, reqs, bg, sweep,
                        createResp, createdEvents,
                   monoVars, extVars>>
    ELSE IF ~storeOk
    THEN /\ out' = Out("create", 500, FALSE)
         /\ UNCHANGED <<alerts, nextId, now, channel, reqs, bg, sweep,
                        createResp, createdEvents,
                   monoVars, extVars>>
    ELSE /\ nextId <= MaxAlerts
         /\ alerts' = [alerts EXCEPT ![nextId] = newAlertData(now)]
         /\ nextId' = nextId + 1
         /\ out' = Silent
         /\ bg' = [bg EXCEPT ![nextId].pc = "classify"]
         /\ UNCHANGED <<now, channel, reqs, sweep, createResp, createdEvents,
                   monoVars, extVars>>

\* a createAlert that publishes 'alert.created' with the record it has just
\* inserted
createAlertPublishFirst(citizenId, location, storeOk) ==
    IF citizenId = NULL \/ location = NULL
    THEN /\ out' = Out("create", 400, FALSE)
         /\ UNCHANGED <<alerts, nextId, now, channel, reqs, bg, sweep,
                        createResp, createdEvents,
                   monoVars, extVars>>
    ELSE IF ~storeOk
    THEN /\ out' = Out("create", 500, FALSE)
         /\ UNCHANGED <<alerts, nextId, now, channel, reqs, bg, sweep,
                        createResp, createdEvents,
                   monoVars, extVars>>
    ELSE /\ nextId <= MaxAlerts
         /\ alerts' = [alerts EXCEPT ![nextId] = newAlertData(now)]
         /\ nextId' = nextId + 1
         /\ createResp' = [createResp EXCEPT
                             ![nextId] = [code |-> 201,
                                          body |-> newAlertData(now)]]
         /\ out' = Out("create", 201, publish)
         /\ bg' = [bg EXCEPT ![nextId].pc = "classify"]
         /\ createdEvents' =
              IF publish
              THEN [createdEvents EXCEPT
                      ![nextId] = Append(@, [targetedOfficers |-> {},
                                             alert |-> [id |-> nextId,
                                                        category |-> NULL,
                                                        targetedOfficers |->
                                                            NullColumn]])]
              ELSE createdEvents
         /\ UNCHANGED <<now, channel, reqs, sweep,
                   monoVars, extVars>>

\* a createAlert that asks for the citizen's id only
createAlertNoOriginCheck(citizenId, location, storeOk) ==
    IF citizenId = NULL
    THEN /\ out' = Out("create", 400, FALSE)
         /\ UNCHANGED <<alerts, nextId, now, channel, reqs, bg, sweep,
                        createResp, createdEvents,
                   monoVars, extVars>>
    ELSE IF ~storeOk
    THEN /\ out' = Out("create", 500, FALSE)
         /\ UNCHANGED <<alerts, nextId, now, channel, reqs, bg, sweep,
                        createResp, createdEvents,
                   monoVars, extVars>>
    ELSE /\ nextId <= MaxAlerts
         /\ alerts' = [alerts EXCEPT ![nextId] = newAlertData(now)]
         /\ nextId' = nextId + 1
         /\ createResp' = [createResp EXCEPT
                             ![nextId] = [code |-> 201,
                                          body |-> newAlertData(now)]]
         /\ out' = Out("create", 201, FALSE)
         /\ bg' = [bg EXCEPT ![nextId].pc = "classify"]
         /\ UNCHANGED <<now, channel, reqs, sweep, createdEvents,
                   monoVars, extVars>>

\* a createAlert whose INSERT has written the row when the store call fails
createAlertRowKeptOnFailure(citizenId, location, storeOk) ==
    IF citizenId = NULL \/ location = NULL
    THEN /\ out' = Out("create", 400, FALSE)
         /\ UNCHANGED <<alerts, nextId, now, channel, reqs, bg, sweep,
                        createResp, createdEvents,
                   monoVars, extVars>>
    ELSE /\ nextId <= MaxAlerts
         /\ alerts' = [alerts EXCEPT ![nextId] = newAlertData(now)]
         /\ nextId' = nextId + 1
         /\ IF storeOk
            THEN /\ createResp' = [createResp EXCEPT
                                     ![nextId] = [code |-> 201,
                                                  body |-> newAlertData(now)]]
                 /\ out' = Out("create", 201, FALSE)
                 /\ bg' = [bg EXCEPT ![nextId].pc = "classify"]
            ELSE /\ out' = Out("create", 500, FALSE)
                 /\ UNCHANGED <<createResp, bg,
                   monoVars, extVars>>
         /\ UNCHANGED <<now, channel, reqs, sweep, createdEvents,
                   monoVars, extVars>>

\* steps 1-2 of createAlert: validation, INSERT of the preliminary record,
\* response to the client; the background phase starts after the response
createAlert(citizenId, location, storeOk) ==
    IF citizenId = NULL \/ location = NULL
    THEN /\ out' = Out("create", 400, FALSE)
         /\ UNCHANGED <<alerts, nextId, now, channel, reqs, bg, sweep,
                        createResp, createdEvents,
                   monoVars, extVars>>
    ELSE IF ~storeOk
    THEN /\ out' = Out("create", 500, FALSE)
         /\ UNCHANGED <<alerts, nextId, now, channel, reqs, bg, sweep,
                        createResp, createdEvents,
                   monoVars, extVars>>
    ELSE /\ nextId <= MaxAlerts
         /\ alerts' = [alerts EXCEPT ![nextId] = newAlertData(now)]
         /\ nextId' = nextId + 1
         /\ createResp' = [createResp EXCEPT
                             ![nextId] = [code |-> 201,
                                          body |-> newAlertData(now)]]
         /\ out' = Out("create", 201, FALSE)
         /\ bg' = [bg EXCEPT ![nextId].pc = "classify"]
         /\ UNCHANGED <<now, channel, reqs, sweep, createdEvents,
                   monoVars, extVars>>

\* step 3a: the call to the AI Analysis service
\* kind: "error" (fetch or json() throws, timeout), "notOk", "ok";
\* aiBody keeps the category field of a 200 response, NULL without one
classify(id, kind, aiCategory) ==
    /\ bg[id].pc = "classify"
    /\ bg' = [bg EXCEPT ![id].pc = "findNearby",
                        ![id].aiBody = IF kind = "ok" THEN aiCategory
                                       ELSE NULL,
                        ![id].category = IF kind = "ok" THEN aiCategory
                                         ELSE DEFAULT_CATEGORY]
    /\ out' = Silent
    /\ UNCHANGED <<alerts, nextId, now, channel, reqs, sweep, createResp,
                   createdEvents,
                   monoVars, extVars>>

\* step 3b: the call to the Location service
\* responderIds: the field of the 200 response, {UNDEFINED} when it is missing
findNearby(id, kind, responderIds) ==
    /\ bg[id].pc = "findNearby"
    /\ bg' = [bg EXCEPT ![id].pc = "update",
                        ![id].geo = IF kind = "ok" THEN "ok" ELSE "failed",
                        ![id].targetedOfficers =
                            IF kind = "ok" /\ responderIds # {UNDEFINED}
                            THEN responderIds ELSE {}]
    /\ out' = Silent
    /\ UNCHANGED <<alerts, nextId, now, channel, reqs, sweep, createResp,
                   createdEvents,
                   monoVars, extVars>>

\* an enrichment update that removes the alert when the store fails
enrichUpdateRollback(id, storeOk) ==
    /\ bg[id].pc = "update"
    /\ IF storeOk
       THEN /\ alerts' = IF Exists(id)
                         THEN [alerts EXCEPT
                                 ![id].category = sqlBind(bg[id].category),
                                 ![id].targetedOfficers =
                                     bg[id].targetedOfficers]
                         ELSE alerts
            /\ bg' = [bg EXCEPT ![id].pc = "publish"]
       ELSE /\ bg' = [bg EXCEPT ![id].pc = "done",
                                ![id].result = "updateFailed"]
            /\ alerts' = [alerts EXCEPT ![id] = NoAlert]
    /\ out' = Silent
    /\ UNCHANGED <<nextId, now, channel, reqs, sweep, createResp,
                   createdEvents,
                   monoVars, extVars>>

\* an enrichment update that writes the whole record it started from back,
\* with the category and the responder set filled in
enrichUpdateWholeRecord(id, storeOk) ==
    /\ bg[id].pc = "update"
    /\ IF storeOk
       THEN /\ alerts' = IF Exists(id)
                         THEN [alerts EXCEPT
                                 ![id].status = "new",
                                 ![id].acceptedBy = NULL,
                                 ![id].category = sqlBind(bg[id].category),
                                 ![id].targetedOfficers =
                                     bg[id].targetedOfficers]
                         ELSE alerts
            /\ bg' = [bg EXCEPT ![id].pc = "publish"]
       ELSE /\ bg' = [bg EXCEPT ![id].pc = "done",
                                ![id].result = "updateFailed"]
            /\ UNCHANGED alerts
    /\ out' = Silent
    /\ UNCHANGED <<nextId, now, channel, reqs, sweep, createResp,
                   createdEvents,
                   monoVars, extVars>>

\* step 3c: UPDATE alerts SET category = ?, targetedOfficers = ? WHERE id = ?
enrichUpdate(id, storeOk) ==
    /\ bg[id].pc = "update"
    /\ IF storeOk
       THEN /\ alerts' = IF Exists(id)
                         THEN [alerts EXCEPT
                                 ![id].category = sqlBind(bg[id].category),
                                 ![id].targetedOfficers =
                                     bg[id].targetedOfficers]
                         ELSE alerts
            /\ bg' = [bg EXCEPT ![id].pc = "publish"]
       ELSE /\ bg' = [bg EXCEPT ![id].pc = "done",
                                ![id].result = "updateFailed"]
            /\ UNCHANGED alerts
    /\ out' = Silent
    /\ UNCHANGED <<nextId, now, channel, reqs, sweep, createResp,
                   createdEvents,
                   monoVars, extVars>>

\* the payload of 'alert.created': { targetedOfficers, alert: fullAlert }
createdPayload(id) ==
    [targetedOfficers |-> bg[id].targetedOfficers,
     alert |-> [id |-> id,
                category |-> alerts[id].category,
                targetedOfficers |-> alerts[id].targetedOfficers]]

\* step 3d: re-read the record and publish 'alert.created' and
\* 'alert.broadcast'
enrichPublish(id, storeOk) ==
    /\ bg[id].pc = "publish"
    /\ IF ~storeOk
       THEN /\ bg' = [bg EXCEPT ![id].pc = "done",
                                ![id].result = "readFailed"]
            /\ out' = Silent
            /\ UNCHANGED createdEvents
       ELSE IF ~Exists(id)
       THEN /\ bg' = [bg EXCEPT ![id].pc = "done", ![id].result = "missing"]
            /\ out' = Silent
            /\ UNCHANGED createdEvents
       ELSE /\ bg' = [bg EXCEPT ![id].pc = "done",
                                ![id].result = IF publish THEN "published"
                                               ELSE "dropped"]
            /\ out' = Out("enrich", 0, publish)
            /\ createdEvents' =
                 IF publish
                 THEN [createdEvents EXCEPT
                         ![id] = Append(@, createdPayload(id))]
                 ELSE createdEvents
    /\ UNCHANGED <<alerts, nextId, now, channel, reqs, sweep, createResp,
                   monoVars, extVars>>

\* ------------------------------------------- accept / resolve / cancel
\* _updateAlertStatus up to its first await:
\* UPDATE alerts SET status = ?[, acceptedBy = ?] WHERE id = ?
updateAlertStatus(op, id, newStatus, extraData, storeOk) ==
    IF ~storeOk
    THEN /\ out' = Out(op, 500, FALSE)
         /\ UNCHANGED <<alerts, nextId, now, channel, reqs, bg, sweep,
                        createResp, createdEvents,
                   monoVars, extVars>>
    ELSE /\ BagCardinality(reqs) < MaxReqs
         /\ alerts' = IF ~Exists(id) THEN alerts
                      ELSE IF extraData = NULL
                      THEN [alerts EXCEPT ![id].status = newStatus]
                      ELSE [alerts EXCEPT ![id].status = newStatus,
                                          ![id].acceptedBy = extraData]
         /\ reqs' = reqs (+) SetToBag({[op |-> op, id |-> id]})
         /\ out' = Silent
         /\ UNCHANGED <<nextId, now, channel, bg, sweep, createResp,
                        createdEvents,
                   monoVars, extVars>>

\* a second half of _updateAlertStatus in which publish throws without a
\* channel, into the catch of the handler
updateAlertStatusRespondPublishThrows(req, storeOk) ==
    /\ BagIn(req, reqs)
    /\ reqs' = reqs (-) SetToBag({req})
    /\ out' = IF ~storeOk THEN Out(req.op, 500, FALSE)
              ELSE IF ~Exists(req.id) THEN Out(req.op, 404, FALSE)
              ELSE IF ~channel THEN Out(req.op, 500, FALSE)
              ELSE Out(req.op, 200, publish)
    /\ UNCHANGED <<alerts, nextId, now, channel, bg, sweep, createResp,
                   createdEvents,
                   monoVars, extVars>>

\* a second half of _updateAlertStatus that does not look whether the SELECT
\* found a row
updateAlertStatusRespondUnchecked(req, storeOk) ==
    /\ BagIn(req, reqs)
    /\ reqs' = reqs (-) SetToBag({req})
    /\ out' = IF ~storeOk THEN Out(req.op, 500, FALSE)
              ELSE Out(req.op, 200, publish)
    /\ UNCHANGED <<alerts, nextId, now, channel, bg, sweep, createResp,
                   createdEvents,
                   monoVars, extVars>>

\* the rest of _updateAlertStatus: SELECT the row, 404 without one, else
\* publish 'alert.broadcast' and answer with the row
updateAlertStatusRespond(req, storeOk) ==
    /\ BagIn(req, reqs)
    /\ reqs' = reqs (-) SetToBag({req})
    /\ out' = IF ~storeOk THEN Out(req.op, 500, FALSE)
              ELSE IF ~Exists(req.id) THEN Out(req.op, 404, FALSE)
              ELSE Out(req.op, 200, publish)
    /\ UNCHANGED <<alerts, nextId, now, channel, bg, sweep, createResp,
                   createdEvents,
                   monoVars, extVars>>

acceptAlert(id, officerId, storeOk) ==
    IF officerId = NULL
    THEN /\ out' = Out("accept", 400, FALSE)
         /\ UNCHANGED <<alerts, nextId, now, channel, reqs, bg, sweep,
                        createResp, createdEvents,
                   monoVars, extVars>>
    ELSE updateAlertStatus("accept", id, "accepted", officerId, storeOk)

resolveAlert(id, storeOk) ==
    updateAlertStatus("resolve", id, "resolved", NULL, storeOk)

cancelAlert(id, storeOk) ==
    updateAlertStatus("cancel", id, "canceled", NULL, storeOk)

\* DELETE FROM alerts WHERE id = ?, then publish 'alert.broadcast', then 204
deleteAlert(id, storeOk) ==
    /\ alerts' = IF storeOk THEN [alerts EXCEPT ![id] = NoAlert] ELSE alerts
    /\ out' = IF storeOk THEN Out("delete", 204, publish)
              ELSE Out("delete", 500, FALSE)
    /\ UNCHANGED <<nextId, now, channel, reqs, bg, sweep, createResp,
                   createdEvents,
                   monoVars, extVars>>

\* ------------------------------------------------------ timeout processor
\* SELECT id FROM alerts WHERE status = 'new' AND timeoutTimestamp <= now
timedOutAlerts ==
    {id \in AlertIds : /\ Exists(id)
                       /\ alerts[id].status = "new"
                       /\ alerts[id].timeoutTimestamp <= now}

\* the interval fires: processTimeouts calls find-and-update-timeouts, which
\* runs its SELECT; without rows it answers {updatedCount: 0, ids: []}
processTimeouts(storeOk) ==
    /\ sweep.pc = "idle"
    /\ sweep' = IF ~storeOk \/ timedOutAlerts = {}
                THEN [pc |-> "idle", ids |-> {}, returned |-> {}]
                ELSE [pc |-> "update", ids |-> timedOutAlerts,
                      returned |-> {}]
    /\ out' = Out("sweep", 0, FALSE)
    /\ UNCHANGED <<alerts, nextId, now, channel, reqs, bg, createResp,
                   createdEvents,
                   monoVars, extVars>>

\* UPDATE alerts SET status = 'timed_out' WHERE id IN (ids), the answer
\* {updatedCount: ids.length, ids}, and the broadcast of processTimeouts
findAndUpdateTimeouts(storeOk) ==
    /\ sweep.pc = "update"
    /\ IF storeOk
       THEN /\ alerts' = [id \in AlertIds |->
                            IF id \in sweep.ids /\ Exists(id)
                            THEN [alerts[id] EXCEPT !.status = "timed_out"]
                            ELSE alerts[id]]
            /\ sweep' = [pc |-> "idle", ids |-> {}, returned |-> sweep.ids]
            /\ out' = Out("sweep", 0, publish)
       ELSE /\ sweep' = [pc |-> "idle", ids |-> {}, returned |-> {}]
            /\ out' = Out("sweep", 0, FALSE)
            /\ UNCHANGED alerts
    /\ UNCHANGED <<nextId, now, channel, reqs, bg, createResp,
                   createdEvents,
                   monoVars, extVars>>

RequestKinds == [op : {"accept", "resolve", "cancel"}, id : AlertIds]

Next ==
    \/ Tick
    \/ connectionClose
    \/ connect
    \/ \E c \in {"citizen1", NULL}, l \in {"location", NULL},
          ok \in BOOLEAN : createAlert(c, l, ok)
    \/ \E id \in AlertIds, k \in {"error", "notOk", "ok"},
          c \in AiCategoryValues : classify(id, k, c)
    \/ \E id \in AlertIds, k \in {"error", "notOk", "ok"},
          ids \in ResponderIdsValues : findNearby(id, k, ids)
    \/ \E id \in AlertIds, ok \in BOOLEAN : enrichUpdate(id, ok)
    \/ \E id \in AlertIds, ok \in BOOLEAN : enrichPublish(id, ok)
    \/ \E id \in AlertIds, o \in Officers \cup {NULL}, ok \in BOOLEAN :
          acceptAlert(id, o, ok)
    \/ \E id \in AlertIds, ok \in BOOLEAN : resolveAlert(id, ok)
    \/ \E id \in AlertIds, ok \in BOOLEAN : cancelAlert(id, ok)
    \/ \E req \in RequestKinds, ok \in BOOLEAN :
          updateAlertStatusRespond(req, ok)
    \/ \E id \in AlertIds, ok \in BOOLEAN : deleteAlert(id, ok)
    \/ \E ok \in BOOLEAN : processTimeouts(ok)
    \/ \E ok \in BOOLEAN : findAndUpdateTimeouts(ok)

Spec == Init /\ [][Next]_vars

\* setInterval runs the timeout processor again and again and the clock
\* advances; a store that can answer a scan again and again does answer one
Fairness ==
    /\ WF_vars(Tick)
    /\ SF_vars(processTimeouts(TRUE))
    /\ SF_vars(findAndUpdateTimeouts(TRUE))

FairSpec == Spec /\ Fairness

\* ------------------------------------------------- the monolith, src/index.js
\* kilometres between the place of the alerts of a run and each officer of
\* officerLocations
officerDistanceKm == [o \in Officers |-> IF o = "728" THEN 3 ELSE 8]

\* the officers within radius km of the alert; none without a location
officersWithin(location, radius) ==
    IF location = NULL THEN {}
    ELSE {o \in Officers : officerDistanceKm[o] <= radius}

MonoExists(id) == monoAlerts[id] # NoAlert

\* broadcastAlerts(), not awaited: a step whose handler calls it leaves one
\* more call that awaits its SELECT; the calls are followed from the first
\* connection of a client on, before it there is nobody to send to
broadcastAlertsCalled ==
    IF monoOut'.broadcast /\ \E c \in MonoConns : clients[c] # "none"
    THEN /\ broadcasts < MaxBroadcasts
         /\ broadcasts' = broadcasts + 1
    ELSE broadcasts' = broadcasts

\* clearTimeout of both timers: a timer that has not fired never fires; a
\* callback that has started is not stopped
clearAlertTimers(id) ==
    [alertTimers EXCEPT
       ![id].escalationTimer = IF @ = "pending" THEN "cleared" ELSE @,
       ![id].timeoutTimer = IF @ = "pending" THEN "cleared" ELSE @]

\* a POST /api/alerts on a table whose ids are one more than the largest id
\* in the table (INTEGER PRIMARY KEY without AUTOINCREMENT)
postAlertReuseId(citizenId, location, storeOk) ==
    /\ IF citizenId = NULL
       THEN /\ monoOut' = Out("create", 400, FALSE)
            /\ UNCHANGED <<monoAlerts, monoNextId, alertTimers>>
       ELSE IF ~storeOk
       THEN /\ monoOut' = Out("create", 500, FALSE)
            /\ UNCHANGED <<monoAlerts, monoNextId, alertTimers>>
       ELSE LET used == {i \in MonoIds : MonoExists(i)}
                rowid == IF used = {} THEN 1
                         ELSE 1 + CHOOSE i \in used : \A j \in used : j <= i
            IN  /\ rowid <= MaxMonoAlerts
                /\ Cardinality(used) < MaxLive
                /\ monoAlerts' =
                     [monoAlerts EXCEPT
                        ![rowid] =
                           [status |-> "new", acceptedBy |-> NULL,
                            location |-> location, searchRadius |-> 5,
                            targetedOfficers |-> officersWithin(location, 5)]]
                /\ monoNextId' = rowid + 1
                /\ alertTimers' =
                     [alertTimers EXCEPT
                        ![rowid] = [escalationTimer |-> "unset",
                                    timeoutTimer |-> "unset"]]
                /\ monoOut' = Silent
    /\ UNCHANGED <<monoReqs, svcVars, extVars>>
    /\ broadcastAlertsCalled

\* POST /api/alerts up to the end of its INSERT
postAlert(citizenId, location, storeOk) ==
    /\ IF citizenId = NULL
       THEN /\ monoOut' = Out("create", 400, FALSE)
            /\ UNCHANGED <<monoAlerts, monoNextId, alertTimers>>
       ELSE IF ~storeOk
       THEN /\ monoOut' = Out("create", 500, FALSE)
            /\ UNCHANGED <<monoAlerts, monoNextId, alertTimers>>
       ELSE /\ monoNextId <= MaxMonoAlerts
            /\ Cardinality({i \in MonoIds : MonoExists(i)}) < MaxLive
            /\ monoAlerts' =
                 [monoAlerts EXCEPT
                    ![monoNextId] =
                       [status |-> "new", acceptedBy |-> NULL,
                        location |-> location, searchRadius |-> 5,
                        targetedOfficers |-> officersWithin(location, 5)]]
            /\ monoNextId' = monoNextId + 1
            /\ alertTimers' =
                 [alertTimers EXCEPT
                    ![monoNextId] = [escalationTimer |-> "unset",
                                     timeoutTimer |-> "unset"]]
            /\ monoOut' = Silent
    /\ UNCHANGED <<monoReqs, svcVars, extVars>>
    /\ broadcastAlertsCalled

\* the rest of POST /api/alerts: the SELECT of the push tokens (made only
\* when officers are targeted), the two setTimeout calls, the broadcast and
\* the 201; when the SELECT throws, the catch answers 500 and no timer is set
postAlertSetTimers(id, storeOk) ==
    /\ alertTimers[id].timeoutTimer = "unset"
    /\ IF storeOk \/ (MonoExists(id) /\ monoAlerts[id].targetedOfficers = {})
       THEN /\ alertTimers' =
                 [alertTimers EXCEPT
                    ![id] = [escalationTimer |-> "pending",
                             timeoutTimer |-> "pending"]]
            /\ monoOut' = Out("create", 201, TRUE)
       ELSE /\ alertTimers' =
                 [alertTimers EXCEPT
                    ![id] = [escalationTimer |-> "never",
                             timeoutTimer |-> "never"]]
            /\ monoOut' = Out("create", 500, FALSE)
    /\ UNCHANGED <<monoAlerts, monoNextId, monoReqs, svcVars, extVars>>
    /\ broadcastAlertsCalled

\* the escalation timer fires after TIMEOUT_ESCALATE: its SELECT and its test
\* of the status
escalationTimer(id, storeOk) ==
    /\ alertTimers[id].escalationTimer = "pending"
    /\ alertTimers' =
         [alertTimers EXCEPT
            ![id].escalationTimer =
               IF storeOk /\ MonoExists(id) /\ monoAlerts[id].status = "new"
               THEN "running" ELSE "done"]
    /\ monoOut' = Silent
    /\ UNCHANGED <<monoAlerts, monoNextId, monoReqs, svcVars, extVars>>
    /\ broadcastAlertsCalled

\* UPDATE alerts SET searchRadius = 10, targetedOfficers = ? WHERE id = ?
escalationTimerUpdate(id, storeOk) ==
    /\ alertTimers[id].escalationTimer = "running"
    /\ alertTimers' = [alertTimers EXCEPT ![id].escalationTimer = "done"]
    /\ IF storeOk
       THEN /\ monoAlerts' =
                 IF MonoExists(id)
                 THEN [monoAlerts EXCEPT
                         ![id].searchRadius = 10,
                         ![id].targetedOfficers =
                             officersWithin(monoAlerts[id].location, 10)]
                 ELSE monoAlerts
            /\ monoOut' = Out("escalation", 0, TRUE)
       ELSE /\ monoOut' = Silent
            /\ UNCHANGED monoAlerts
    /\ UNCHANGED <<monoNextId, monoReqs, svcVars, extVars>>
    /\ broadcastAlertsCalled

\* the timeout timer fires after TIMEOUT_DURATION, later than the escalation
\* timer: its SELECT and its test of the status
timeoutTimer(id, storeOk) ==
    /\ alertTimers[id].timeoutTimer = "pending"
    /\ alertTimers[id].escalationTimer # "pending"
    /\ alertTimers' =
         [alertTimers EXCEPT
            ![id].timeoutTimer =
               IF storeOk /\ MonoExists(id) /\ monoAlerts[id].status = "new"
               THEN "running" ELSE "done"]
    /\ monoOut' = Silent
    /\ UNCHANGED <<monoAlerts, monoNextId, monoReqs, svcVars, extVars>>
    /\ broadcastAlertsCalled

\* UPDATE alerts SET status = 'timed_out' WHERE id = ?
timeoutTimerUpdate(id, storeOk) ==
    /\ alertTimers[id].timeoutTimer = "running"
    /\ alertTimers' = [alertTimers EXCEPT ![id].timeoutTimer = "done"]
    /\ IF storeOk
       THEN /\ monoAlerts' =
                 IF MonoExists(id)
                 THEN [monoAlerts EXCEPT ![id].status = "timed_out"]
                 ELSE monoAlerts
            /\ monoOut' = Out("timeout", 0, TRUE)
       ELSE /\ monoOut' = Silent
            /\ UNCHANGED monoAlerts
    /\ UNCHANGED <<monoNextId, monoReqs, svcVars, extVars>>
    /\ broadcastAlertsCalled

\* the status a handler asks for before it writes
monoGuard(op, status) ==
    CASE op = "accept" -> status = "new"
      [] op = "resolve" -> status = "accepted"
      [] op = "cancel" -> status \in {"new", "accepted"}

monoNewStatus(op) ==
    CASE op = "accept" -> "accepted"
      [] op = "resolve" -> "resolved"
      [] op = "cancel" -> "canceled"

\* POST /api/alerts/:id/accept|resolve|cancel up to the end of the first
\* SELECT: 400 without officerId, 404 without a row, 409 on the wrong status
postStatus(op, id, officerId, storeOk) ==
    /\ IF op = "accept" /\ officerId = NULL
       THEN monoOut' = Out(op, 400, FALSE) /\ UNCHANGED monoReqs
       ELSE IF ~storeOk
       THEN monoOut' = Out(op, 500, FALSE) /\ UNCHANGED monoReqs
       ELSE IF ~MonoExists(id)
       THEN monoOut' = Out(op, 404, FALSE) /\ UNCHANGED monoReqs
       ELSE IF ~monoGuard(op, monoAlerts[id].status)
       THEN monoOut' = Out(op, 409, FALSE) /\ UNCHANGED monoReqs
       ELSE /\ Cardinality(monoReqs) < MaxMonoReqs
            /\ monoReqs' = monoReqs \cup
                  {[op |-> op, id |-> id, pc |-> "update",
                    officerId |-> IF op = "accept" THEN officerId ELSE NULL]}
            /\ monoOut' = Silent
    /\ UNCHANGED <<monoAlerts, monoNextId, alertTimers, svcVars, extVars>>
    /\ broadcastAlertsCalled

\* the UPDATE of the handler and, for accept and cancel, clearAlertTimers
postStatusUpdate(req, storeOk) ==
    /\ req \in monoReqs
    /\ req.pc = "update"
    /\ IF storeOk
       THEN /\ monoAlerts' =
                 IF ~MonoExists(req.id) THEN monoAlerts
                 ELSE IF req.op = "accept"
                 THEN [monoAlerts EXCEPT
                         ![req.id].status = "accepted",
                         ![req.id].acceptedBy = req.officerId]
                 ELSE [monoAlerts EXCEPT
                         ![req.id].status = monoNewStatus(req.op)]
            /\ alertTimers' = IF req.op \in {"accept", "cancel"}
                              THEN clearAlertTimers(req.id)
                              ELSE alertTimers
            /\ monoReqs' = (monoReqs \ {req})
                              \cup {[req EXCEPT !.pc = "reread"]}
            /\ monoOut' = Silent
       ELSE /\ monoReqs' = monoReqs \ {req}
            /\ monoOut' = Out(req.op, 500, FALSE)
            /\ UNCHANGED <<monoAlerts, alertTimers>>
    /\ UNCHANGED <<monoNextId, svcVars, extVars>>
    /\ broadcastAlertsCalled

\* the second SELECT, the broadcast and the 200 with the row
postStatusRespond(req, storeOk) ==
    /\ req \in monoReqs
    /\ req.pc = "reread"
    /\ monoReqs' = monoReqs \ {req}
    /\ monoOut' = IF ~storeOk THEN Out(req.op, 500, FALSE)
                  ELSE IF ~MonoExists(req.id) THEN Out(req.op, 404, FALSE)
                  ELSE Out(req.op, 200, TRUE)
    /\ UNCHANGED <<monoAlerts, monoNextId, alertTimers, svcVars, extVars>>
    /\ broadcastAlertsCalled

\* DELETE /api/alerts/:id
deleteApiAlert(id, storeOk) ==
    /\ IF ~storeOk
       THEN /\ monoOut' = Out("delete", 500, FALSE)
            /\ UNCHANGED <<monoAlerts, alertTimers>>
       ELSE IF ~MonoExists(id)
       THEN /\ monoOut' = Out("delete", 404, FALSE)
            /\ UNCHANGED <<monoAlerts, alertTimers>>
       ELSE /\ monoAlerts' = [monoAlerts EXCEPT ![id] = NoAlert]
            /\ alertTimers' = clearAlertTimers(id)
            /\ monoOut' = Out("delete", 204, TRUE)
    /\ UNCHANGED <<monoNextId, monoReqs, svcVars, extVars>>
    /\ broadcastAlertsCalled

\* the rows of the table as formatAlerts gives them to the clients
formattedAlerts ==
    {[id |-> id, status |-> monoAlerts[id].status,
      acceptedBy |-> monoAlerts[id].acceptedBy,
      targetedOfficers |-> monoAlerts[id].targetedOfficers,
      searchRadius |-> monoAlerts[id].searchRadius] :
        id \in {i \in MonoIds : MonoExists(i)}}

\* the alerts of a list that broadcastAlerts sends to a client with the
\* metadata: a police officer gets the new alerts targeted to the badge, the
\* alerts the badge accepted and the resolved, canceled and timed_out ones; a
\* citizen gets all; any other role gets none
alertsToSend(metadata, list) ==
    IF metadata.role = "police"
    THEN {alert \in list :
            \/ (alert.status = "new"
                    /\ metadata.mobile \in alert.targetedOfficers)
            \/ (alert.status = "accepted"
                    /\ alert.acceptedBy = metadata.mobile)
            \/ alert.status \in {"resolved", "canceled", "timed_out"}}
    ELSE IF metadata.role = "citizen" THEN list
    ELSE {}

\* broadcastAlerts from its SELECT on: every open client that has metadata is
\* sent its part of the list; an error of the SELECT is caught and logged
broadcastAlerts(storeOk) ==
    /\ broadcasts > 0
    /\ broadcasts' = broadcasts - 1
    /\ lastAlerts' =
         [c \in MonoConns |->
            IF storeOk /\ clients[c] = "open" /\ monoMetadata[c] # NoMetadata
            THEN [sent |-> TRUE,
                  payload |-> alertsToSend(monoMetadata[c], formattedAlerts)]
            ELSE lastAlerts[c]]
    /\ monoOut' = Silent
    /\ UNCHANGED <<monoAlerts, monoNextId, alertTimers, monoReqs, clients,
                   monoMetadata, svcVars, geoVars, wsVars, mqVars,
                   notifierVars, authVars>>

\* wss.on('connection'): clients.add(ws)
wssOnConnection(ws) ==
    /\ clients[ws] = "none"
    /\ clients' = [clients EXCEPT ![ws] = "open"]
    /\ monoOut' = Silent
    /\ UNCHANGED <<monoAlerts, monoNextId, alertTimers, monoReqs, broadcasts,
                   monoMetadata, lastAlerts, svcVars, geoVars, wsVars,
                   mqVars, notifierVars, authVars>>

\* the payloads of an auth message to the monolith
MonoAuthPayloads ==
    {[role |-> "police", mobile |-> "728"],
     [role |-> "citizen", mobile |-> "c1"]}

\* ws.on('message') with an auth message: clientMetadata.set(ws, payload);
\* no list is sent
wsOnAuth(ws, payload) ==
    /\ clients[ws] = "open"
    /\ monoMetadata' = [monoMetadata EXCEPT ![ws] = payload]
    /\ monoOut' = Silent
    /\ UNCHANGED <<monoAlerts, monoNextId, alertTimers, monoReqs, broadcasts,
                   clients, lastAlerts, svcVars, geoVars, wsVars, mqVars,
                   notifierVars, authVars>>

\* ws.on('close'), ws.on('error'): clients.delete(ws) and
\* clientMetadata.delete(ws)
wsOnClose(ws) ==
    /\ clients[ws] = "open"
    /\ clients' = [clients EXCEPT ![ws] = "closed"]
    /\ monoMetadata' = [monoMetadata EXCEPT ![ws] = NoMetadata]
    /\ monoOut' = Silent
    /\ UNCHANGED <<monoAlerts, monoNextId, alertTimers, monoReqs, broadcasts,
                   lastAlerts, svcVars, geoVars, wsVars, mqVars,
                   notifierVars, authVars>>

MonoRequests ==
    [op : {"accept", "resolve", "cancel"}, id : MonoIds,
     pc : {"update", "reread"}, officerId : Officers \cup {NULL}]

MonoNext ==
    \/ \E c \in {"citizen1", NULL}, l \in {"location", NULL},
          ok \in BOOLEAN : postAlert(c, l, ok)
    \/ \E id \in MonoIds, ok \in BOOLEAN : postAlertSetTimers(id, ok)
    \/ \E id \in MonoIds, ok \in BOOLEAN : escalationTimer(id, ok)
    \/ \E id \in MonoIds, ok \in BOOLEAN : escalationTimerUpdate(id, ok)
    \/ \E id \in MonoIds, ok \in BOOLEAN : timeoutTimer(id, ok)
    \/ \E id \in MonoIds, ok \in BOOLEAN : timeoutTimerUpdate(id, ok)
    \/ \E op \in {"accept", "resolve", "cancel"}, id \in MonoIds,
          o \in Officers \cup {NULL}, ok \in BOOLEAN :
          postStatus(op, id, o, ok)
    \/ \E req \in MonoRequests, ok \in BOOLEAN : postStatusUpdate(req, ok)
    \/ \E req \in MonoRequests, ok \in BOOLEAN : postStatusRespond(req, ok)
    \/ \E id \in MonoIds, ok \in BOOLEAN : deleteApiAlert(id, ok)

MonoSpec == Init /\ [][MonoNext]_vars

\* the handlers of the monolith that change the alerts table on a request,
\* its broadcasts and its WebSocket clients
BroadcastNext ==
    \/ \E ok \in BOOLEAN : postAlert("citizen1", "location", ok)
    \/ \E id \in MonoIds, ok \in BOOLEAN : postAlertSetTimers(id, ok)
    \/ \E op \in {"accept", "resolve", "cancel"}, id \in MonoIds,
          o \in Officers, ok \in BOOLEAN : postStatus(op, id, o, ok)
    \/ \E req \in MonoRequests, ok \in BOOLEAN : postStatusUpdate(req, ok)
    \/ \E req \in MonoRequests, ok \in BOOLEAN : postStatusRespond(req, ok)
    \/ \E ok \in BOOLEAN : broadcastAlerts(ok)
    \/ \E ws \in MonoConns : wssOnConnection(ws)
    \/ \E ws \in MonoConns, payload \in MonoAuthPayloads :
          wsOnAuth(ws, payload)
    \/ \E ws \in MonoConns : wsOnClose(ws)

BroadcastSpec == Init /\ [][BroadcastNext]_vars

\* --------------------------------------- the Geo-Matcher, src/unnamed/part_009
\* Coordinates are kilometres of arc along one meridian: every location has
\* lng 0 and lat p for a p of Positions, p kilometres north of a reference
\* point.
SEARCH_RADIUS_KM == 5

\* the northernmost position, in kilometres
MaxKm == 6

Positions == 0..MaxKm

\* getHaversineDistance for two points on one meridian: dLon is 0, so a is
\* sin(dLat/2)^2, c is |dLat| in radians and R * c is the arc between them
getHaversineDistance(lat1, lon1, lat2, lon2) ==
    IF lat2 >= lat1 THEN lat2 - lat1 ELSE lat1 - lat2

\* the order in which a SELECT without ORDER BY returns the rows
PoliceRows == <<"551", "728">>
FirefighterRows == <<"E1", "E2">>

\* GET /police: SELECT * FROM police WHERE locationLat IS NOT NULL
getPolice ==
    LET row(b) == [badgeNumber |-> b, unitNumber |-> UNDEFINED,
                   locationLat |-> police[b].locationLat,
                   locationLng |-> police[b].locationLng]
        all == [i \in 1..Len(PoliceRows) |-> row(PoliceRows[i])]
        located(r) == r.locationLat # NullReal
    IN  SelectSeq(all, located)

\* GET /firefighters: SELECT * FROM firefighters WHERE locationLat IS NOT NULL
getFirefighters ==
    LET row(u) == [badgeNumber |-> UNDEFINED, unitNumber |-> u,
                   locationLat |-> firefighters[u].locationLat,
                   locationLng |-> firefighters[u].locationLng]
        all == [i \in 1..Len(FirefighterRows) |-> row(FirefighterRows[i])]
        located(r) == r.locationLat # NullReal
    IN  SelectSeq(all, located)

\* a pool scan that asks for the police whatever the category is
respondersForPoliceOnly(category) == getPolice

\* findNearbyResponders, the rows it fetches for a category
respondersFor(category) ==
    IF category = "Law & Order" THEN getPolice
    ELSE IF category = "Fire & Rescue" THEN getFirefighters
    ELSE getPolice

\* a loop that keeps a responder only when it is nearer than the radius
RECURSIVE nearbyLoopStrict(_, _)
nearbyLoopStrict(location, responders) ==
    IF responders = <<>> THEN <<>>
    ELSE LET responder == Head(responders)
             distance == getHaversineDistance(location.lat, location.lng,
                             responder.locationLat, responder.locationLng)
             id == IF responder.badgeNumber # UNDEFINED
                   THEN responder.badgeNumber ELSE responder.unitNumber
             rest == nearbyLoopStrict(location, Tail(responders))
         IN  IF distance < SEARCH_RADIUS_KM THEN <<id>> \o rest ELSE rest

\* findNearbyResponders, its loop over the rows
RECURSIVE nearbyLoop(_, _)
nearbyLoop(location, responders) ==
    IF responders = <<>> THEN <<>>
    ELSE LET responder == Head(responders)
             distance == getHaversineDistance(location.lat, location.lng,
                             responder.locationLat, responder.locationLng)
             id == IF responder.badgeNumber # UNDEFINED
                   THEN responder.badgeNumber ELSE responder.unitNumber
             rest == nearbyLoop(location, Tail(responders))
         IN  IF distance <= SEARCH_RADIUS_KM THEN <<id>> \o rest ELSE rest

findNearbyResponders(location, category) ==
    nearbyLoop(location, respondersFor(category))

\* the location of a request body: none, or a point of the meridian
RequestLocations == {NoLocationField} \cup [lat : {0, 1}, lng : {0}]

\* the category of a request body: a category of the schema or none
RequestCategories ==
    {"Law & Order", "Fire & Rescue", "Medical Emergency", UNDEFINED}

\* POST /find-nearby
postFindNearby(location, category, storeOk) ==
    /\ geoOut' =
         IF location = NoLocationField
         THEN [op |-> "find-nearby", code |-> 400]
         ELSE IF ~storeOk
         THEN [op |-> "find-nearby", code |-> 500]
         ELSE [op |-> "find-nearby", code |-> 200,
               location |-> location, category |-> category,
               responderIds |->
                   findNearbyResponders(location,
                       IF category = UNDEFINED THEN "Law & Order"
                       ELSE category)]
    /\ UNCHANGED <<police, firefighters, otherThanGeoVars>>

\* POST /police/location, with PUT /police/:badgeNumber/location
updateLocation(badgeNumber, location, storeOk) ==
    /\ police' =
         IF location # NoLocationField /\ storeOk
         THEN [police EXCEPT ![badgeNumber] =
                  [locationLat |-> location.lat, locationLng |-> location.lng]]
         ELSE police
    /\ geoOut' = [op |-> "location",
                  code |-> IF location = NoLocationField THEN 400
                           ELSE IF storeOk THEN 204 ELSE 500]
    /\ UNCHANGED <<firefighters, otherThanGeoVars>>

\* POST /firefighter/location, with PUT /firefighters/:unitNumber/location
updateFirefighterLocation(unitNumber, location, storeOk) ==
    /\ firefighters' =
         IF location # NoLocationField /\ storeOk
         THEN [firefighters EXCEPT ![unitNumber] =
                  [locationLat |-> location.lat, locationLng |-> location.lng]]
         ELSE firefighters
    /\ geoOut' = [op |-> "location",
                  code |-> IF location = NoLocationField THEN 400
                           ELSE IF storeOk THEN 204 ELSE 500]
    /\ UNCHANGED <<police, otherThanGeoVars>>

\* the location a responder reports
ReportedLocations == {NoLocationField} \cup [lat : Positions, lng : {0}]

GeoNext ==
    \/ \E l \in RequestLocations, c \in RequestCategories, ok \in BOOLEAN :
          postFindNearby(l, c, ok)
    \/ \E b \in Officers, l \in ReportedLocations, ok \in BOOLEAN :
          updateLocation(b, l, ok)
    \/ \E u \in FireUnits, l \in ReportedLocations, ok \in BOOLEAN :
          updateFirefighterLocation(u, l, ok)

GeoSpec == Init /\ [][GeoNext]_vars

\* ------------- the WebSocket Service, src/services/websocket-service/index.js
\* A topic is the sequence of its prefix and its geohash, a routing key the
\* sequence of its words.
Topic(geohash) == <<"geo:", geohash>>

\* topic.replace('geo:', '')
stripGeo(topic) ==
    IF Len(topic) > 1 /\ Head(topic) = "geo:" THEN topic[2] ELSE topic[1]

\* the binding key of a subscription: 'alert.created.*' and its two siblings
bindingKey(sub) ==
    <<"alert",
      CASE sub = "alert_created" -> "created"
        [] sub = "alert_updated" -> "updated"
        [] sub = "alert_deleted" -> "deleted",
      "*">>

\* a topic exchange routes a key to a binding when they have the same number
\* of words and each word of the binding is that of the key or a star
topicMatches(binding, routingKey) ==
    /\ Len(binding) = Len(routingKey)
    /\ \A i \in DOMAIN binding :
          binding[i] = "*" \/ binding[i] = routingKey[i]

OpenConns == {c \in AllConns : wssClients[c] = "open"}

\* ws.send(data): nothing goes out on a connection that is not open
wsSend(ws, type, payload) ==
    IF wssClients[ws] = "open"
    THEN {[to |-> ws, type |-> type, alerts |-> payload]}
    ELSE {}

\* the log of every connection after the sends of a step; seq is the place of
\* the event in publish order, 0 for a snapshot
logged(sends, seq) ==
    [c \in AllConns |->
        IF \E m \in sends : m.to = c
        THEN Append(wsLog[c],
                    [type |-> (CHOOSE m \in sends : m.to = c).type,
                     seq |-> seq])
        ELSE wsLog[c]]

\* ------------------------------------- alerts table of the Database Service
\* POST /alerts: the INSERT, with the geohash of the request body
postAlerts(geohash, storeOk) ==
    /\ \E id \in DbAlertIds :
          /\ dbAlerts[id] = NoAlert
          /\ dbAlerts' =
               IF storeOk
               THEN [dbAlerts EXCEPT ![id] =
                        [id |-> id, geohash |-> sqlBind(geohash),
                         status |-> "new", targetedOfficers |-> NullColumn,
                         acceptedBy |-> NULL]]
               ELSE dbAlerts
    /\ wsOut' = NoWsOut
    /\ UNCHANGED <<wssClients, clientMetadata, subscribed, fetches,
                   published, queues, handled, wsLog, otherThanWsVars>>

\* the bodies of PUT /alerts/:id: the enrichment and the status updates
PutFields ==
    {[targetedOfficers |-> {"551"}],
     [status |-> "accepted", acceptedBy |-> "551"],
     [status |-> "resolved"]}

\* PUT /alerts/:id: UPDATE alerts SET <the fields of the body> WHERE id = ?
putAlerts(id, fields, storeOk) ==
    /\ dbAlerts[id] # NoAlert
    /\ dbAlerts' =
         IF storeOk
         THEN [dbAlerts EXCEPT ![id] =
                  [k \in DOMAIN dbAlerts[id] |->
                      IF k \in DOMAIN fields THEN fields[k]
                      ELSE dbAlerts[id][k]]]
         ELSE dbAlerts
    /\ wsOut' = NoWsOut
    /\ UNCHANGED <<wssClients, clientMetadata, subscribed, fetches,
                   published, queues, handled, wsLog, otherThanWsVars>>

\* POST /alerts/by-geohashes: the rows the SELECT returns
alertsByGeohashes(geohashes) ==
    IF geohashes = {} THEN {}
    ELSE {dbAlerts[id] : id \in
             {i \in DbAlertIds :
                 /\ dbAlerts[i] # NoAlert
                 /\ dbAlerts[i].geohash \in geohashes
                 /\ dbAlerts[i].status \in {"new", "accepted"}}}

\* --------------------------------------------------------- handleConnection
\* wss.on('connection'): clientMetadata.set(ws, { topics: new Set() })
handleConnection(ws) ==
    /\ wssClients[ws] = "none"
    /\ wssClients' = [wssClients EXCEPT ![ws] = "open"]
    /\ clientMetadata' =
         [clientMetadata EXCEPT ![ws] =
             [topics |-> {}, role |-> UNDEFINED, mobile |-> UNDEFINED]]
    /\ wsOut' = [op |-> "connection", ws |-> ws, sends |-> {}]
    /\ UNCHANGED <<dbAlerts, subscribed, fetches, published, queues,
                   handled, wsLog, otherThanWsVars>>

\* the payloads of an auth message
AuthPayloads ==
    {[role |-> "police", mobile |-> "728"],
     [role |-> "citizen", mobile |-> "c1"]}

\* ws.on('message'), case 'auth'
onAuth(ws, payload) ==
    /\ wssClients[ws] = "open"
    /\ clientMetadata[ws] # NoMetadata
    /\ clientMetadata' =
         [clientMetadata EXCEPT ![ws] =
             [topics |-> clientMetadata[ws].topics,
              role |-> payload.role, mobile |-> payload.mobile]]
    /\ wsOut' = [op |-> "auth", ws |-> ws, sends |-> {}]
    /\ UNCHANGED <<dbAlerts, wssClients, subscribed, fetches, published,
                   queues, handled, wsLog, otherThanWsVars>>

\* the topics of a subscribe or unsubscribe message
TopicLists == {<<>>, <<Topic("g1")>>}

\* ws.on('message'), case 'subscribe': the topics are added and
\* sendInitialAlerts runs up to its await
onSubscribe(ws, topics) ==
    /\ wssClients[ws] = "open"
    /\ clientMetadata[ws] # NoMetadata
    /\ subscribed[ws] < MaxSubscribes
    /\ subscribed' = [subscribed EXCEPT ![ws] = @ + 1]
    /\ clientMetadata' =
         [clientMetadata EXCEPT ![ws].topics =
             @ \cup {topics[i] : i \in DOMAIN topics}]
    /\ fetches' =
         IF Len(topics) = 0 THEN fetches
         ELSE fetches \cup
                 {[ws |-> ws, topics |-> topics, pc |-> "request",
                   alerts |-> {}]}
    /\ wsOut' = [op |-> "subscribe", ws |-> ws, sends |-> {}]
    /\ UNCHANGED <<dbAlerts, wssClients, published, queues, handled,
                   wsLog, otherThanWsVars>>

\* ws.on('message'), case 'unsubscribe'
onUnsubscribe(ws, topics) ==
    /\ wssClients[ws] = "open"
    /\ clientMetadata[ws] # NoMetadata
    /\ clientMetadata' =
         [clientMetadata EXCEPT ![ws].topics =
             @ \ {topics[i] : i \in DOMAIN topics}]
    /\ wsOut' = [op |-> "unsubscribe", ws |-> ws, sends |-> {}]
    /\ UNCHANGED <<dbAlerts, wssClients, subscribed, fetches, published,
                   queues, handled, wsLog, otherThanWsVars>>

\* a close handler that keeps the entry of the connection
onCloseKeepEntry(ws) ==
    /\ wssClients[ws] = "open"
    /\ wssClients' = [wssClients EXCEPT ![ws] = "closed"]
    /\ wsOut' = [op |-> "close", ws |-> ws, sends |-> {}]
    /\ UNCHANGED <<dbAlerts, clientMetadata, subscribed, fetches, published,
                   queues, handled, wsLog, otherThanWsVars>>

\* ws.on('close'): clientMetadata.delete(ws)
onClose(ws) ==
    /\ wssClients[ws] = "open"
    /\ wssClients' = [wssClients EXCEPT ![ws] = "closed"]
    /\ clientMetadata' = [clientMetadata EXCEPT ![ws] = NoMetadata]
    /\ wsOut' = [op |-> "close", ws |-> ws, sends |-> {}]
    /\ UNCHANGED <<dbAlerts, subscribed, fetches, published, queues,
                   handled, wsLog, otherThanWsVars>>

\* --------------------------------------------------------- sendInitialAlerts
\* the Database Service answers the request of sendInitialAlerts, or fails
byGeohashes(f, storeOk) ==
    /\ f \in fetches
    /\ f.pc = "request"
    /\ fetches' =
         (fetches \ {f}) \cup
         {IF storeOk
          THEN [f EXCEPT !.pc = "response",
                         !.alerts = alertsByGeohashes(
                             {stripGeo(f.topics[i]) : i \in DOMAIN f.topics})]
          ELSE [f EXCEPT !.pc = "error"]}
    /\ wsOut' = NoWsOut
    /\ UNCHANGED <<dbAlerts, wssClients, clientMetadata, subscribed,
                   published, queues, handled, wsLog, otherThanWsVars>>

\* sendInitialAlerts after its await: the snapshot is sent, or the error of
\* the request is caught and logged
sendInitialAlerts(f) ==
    /\ f \in fetches
    /\ f.pc \in {"response", "error"}
    /\ fetches' = fetches \ {f}
    /\ LET sends == IF f.pc = "error" THEN {}
                    ELSE wsSend(f.ws, "initial_alerts", f.alerts)
       IN  /\ wsOut' = [op |-> "sendInitialAlerts", ws |-> f.ws,
                        sends |-> sends, topics |-> f.topics]
           /\ wsLog' = logged(sends, 0)
    /\ UNCHANGED <<dbAlerts, wssClients, clientMetadata, subscribed,
                   published, queues, handled, otherThanWsVars>>

\* ------------------------------------------------------------ the publishers
EventKinds == {"created", "updated", "deleted"}

\* the connections that are open and hold the topic of a geohash
subscribersOf(geohash) ==
    {c \in OpenConns : Topic(geohash) \in clientMetadata[c].topics}

\* the queues after a message with the routing keys of an event went to the
\* exchange
routed(routingKeys, seq, payload) ==
    [s \in Subscriptions |->
        IF \E k \in routingKeys : topicMatches(bindingKey(s), k)
        THEN Append(queues[s],
                    [seq |-> seq,
                     routingKey |-> CHOOSE k \in routingKeys :
                                       topicMatches(bindingKey(s), k),
                     payload |-> payload])
        ELSE queues[s]]

\* the routing keys the Alerts Service publishes for an event of an alert:
\* 'alert.created' and 'alert.broadcast' for a creation, 'alert.broadcast'
\* for a status update and for a deletion
alertsServiceKeys(kind) ==
    IF kind = "created"
    THEN {<<"alert", "created">>, <<"alert", "broadcast">>}
    ELSE {<<"alert", "broadcast">>}

\* JSON.stringify({ targetedOfficers, alert: fullAlert }): the message of
\* 'alert.created'; the officers of an alert that has none are an empty list
createdMessage(id, row) ==
    [targetedOfficers |-> IF row.targetedOfficers = NullColumn THEN {}
                          ELSE row.targetedOfficers,
     alert |-> [id |-> id, status |-> row.status]]

\* the Alerts Service publishes an event of the alert
alertsServicePublish(id, kind, limit) ==
    /\ Len(published) < limit
    /\ dbAlerts[id] # NoAlert
    /\ published' =
         Append(published,
                [routingKeys |-> alertsServiceKeys(kind),
                 geohash |-> dbAlerts[id].geohash,
                 subscribers |-> subscribersOf(dbAlerts[id].geohash)])
    /\ queues' = routed(alertsServiceKeys(kind), Len(published) + 1,
                        dbAlerts[id])
    /\ notifierQueue' =
         IF kind = "created"
         THEN Append(notifierQueue, createdMessage(id, dbAlerts[id]))
         ELSE notifierQueue
    /\ wsOut' = NoWsOut
    /\ UNCHANGED <<dbAlerts, wssClients, clientMetadata, subscribed,
                   fetches, handled, wsLog, notifierCalls, notifierOut,
                   otherThanConsumerVars>>

\* publish('alert.<kind>.<geohash>', alert): an event goes to the exchange
\* with the routing key the WebSocket Service binds its queues to
geohashPublish(id, kind, limit) ==
    /\ Len(published) < limit
    /\ dbAlerts[id] # NoAlert
    /\ LET routingKeys == {<<"alert", kind, dbAlerts[id].geohash>>}
       IN  /\ published' =
                Append(published,
                       [routingKeys |-> routingKeys,
                        geohash |-> dbAlerts[id].geohash,
                        subscribers |-> subscribersOf(dbAlerts[id].geohash)])
           /\ queues' = routed(routingKeys, Len(published) + 1, dbAlerts[id])
    /\ wsOut' = NoWsOut
    /\ UNCHANGED <<dbAlerts, wssClients, clientMetadata, subscribed,
                   fetches, handled, wsLog, otherThanWsVars>>

\* ------------------------------------------------- routeAlertToSubscribers
\* routingKey.split('.').pop()
lastWord(routingKey) == routingKey[Len(routingKey)]

\* a routing that sends the event on every open connection
routeAlertToEveryClient(msg, messageType) ==
    UNION {wsSend(client, messageType, {msg.payload}) : client \in OpenConns}

\* what routeAlertToSubscribers sends for a message
routeAlertToSubscribers(msg, messageType) ==
    LET topic == Topic(lastWord(msg.routingKey))
    IN  UNION {wsSend(client, messageType, {msg.payload}) :
                  client \in {c \in OpenConns :
                                 /\ clientMetadata[c] # NoMetadata
                                 /\ topic \in clientMetadata[c].topics}}

\* a consumer that is handed the newest message of its queue
consumeNewest(sub) ==
    /\ queues[sub] # <<>>
    /\ LET n == Len(queues[sub])
           msg == queues[sub][n]
           sends == routeAlertToSubscribers(msg, sub)
       IN  /\ queues' = [queues EXCEPT ![sub] = SubSeq(@, 1, n - 1)]
           /\ handled' = [handled EXCEPT ![sub] = Append(@, msg.seq)]
           /\ wsOut' = [op |-> "routeAlertToSubscribers", ws |-> 0,
                        sends |-> sends]
           /\ wsLog' = logged(sends, msg.seq)
    /\ UNCHANGED <<dbAlerts, wssClients, clientMetadata, subscribed,
                   fetches, published, otherThanWsVars>>

\* channel.consume(q.queue, ...): the oldest message of the queue of a
\* subscription is handed to its callback
consume(sub) ==
    /\ queues[sub] # <<>>
    /\ LET msg == Head(queues[sub])
           sends == routeAlertToSubscribers(msg, sub)
       IN  /\ queues' = [queues EXCEPT ![sub] = Tail(@)]
           /\ handled' = [handled EXCEPT ![sub] = Append(@, msg.seq)]
           /\ wsOut' = [op |-> "routeAlertToSubscribers", ws |-> 0,
                        sends |-> sends]
           /\ wsLog' = logged(sends, msg.seq)
    /\ UNCHANGED <<dbAlerts, wssClients, clientMetadata, subscribed,
                   fetches, published, otherThanWsVars>>

WsNext ==
    \/ \E g \in Geohashes, ok \in BOOLEAN : postAlerts(g, ok)
    \/ \E id \in DbAlertIds, fields \in PutFields, ok \in BOOLEAN :
          putAlerts(id, fields, ok)
    \/ \E ws \in Conns : handleConnection(ws)
    \/ \E ws \in Conns, payload \in AuthPayloads : onAuth(ws, payload)
    \/ \E ws \in Conns, topics \in TopicLists : onSubscribe(ws, topics)
    \/ \E ws \in Conns, topics \in TopicLists : onUnsubscribe(ws, topics)
    \/ \E ws \in Conns : onClose(ws)
    \/ \E f \in fetches, ok \in BOOLEAN : byGeohashes(f, ok)
    \/ \E f \in fetches : sendInitialAlerts(f)
    \/ \E id \in DbAlertIds, kind \in EventKinds :
          alertsServicePublish(id, kind, MaxWsEvents)
    \/ \E id \in DbAlertIds, kind \in EventKinds :
          geohashPublish(id, kind, MaxWsEvents)
    \/ \E sub \in Subscriptions : consume(sub)

WsSpec == Init /\ [][WsNext]_vars

\* the publishers, the broker and the consumers of the WebSocket Service while
\* no client is connected
BusNext ==
    \/ \E g \in Geohashes, ok \in BOOLEAN : postAlerts(g, ok)
    \/ \E id \in DbAlertIds, fields \in PutFields, ok \in BOOLEAN :
          putAlerts(id, fields, ok)
    \/ \E id \in DbAlertIds, kind \in EventKinds :
          alertsServicePublish(id, kind, MaxEvents)
    \/ \E id \in DbAlertIds, kind \in EventKinds :
          geohashPublish(id, kind, MaxEvents)
    \/ \E sub \in Subscriptions : consume(sub)

BusSpec == Init /\ [][BusNext]_vars

\* the routing of events to several connections: the connections, their
\* subscribe and unsubscribe messages, the publisher and the consumers
RouteNext ==
    \/ \E g \in Geohashes, ok \in BOOLEAN : postAlerts(g, ok)
    \/ \E ws \in RouteConns : handleConnection(ws)
    \/ \E ws \in RouteConns, topics \in TopicLists : onSubscribe(ws, topics)
    \/ \E ws \in RouteConns, topics \in TopicLists :
          onUnsubscribe(ws, topics)
    \/ \E ws \in RouteConns : onClose(ws)
    \/ \E f \in fetches, ok \in BOOLEAN : byGeohashes(f, ok)
    \/ \E f \in fetches : sendInitialAlerts(f)
    \/ \E id \in DbAlertIds, kind \in EventKinds :
          geohashPublish(id, kind, MaxRouteEvents)
    \/ \E sub \in Subscriptions : consume(sub)

RouteSpec == Init /\ [][RouteNext]_vars

\* ----------- the Notifier, src/services/notifications-service/index.js
\* the pushToken column of the officers of an answer of /police/by-badges
PushTokenTables == [Officers -> {"ExponentPushToken[x]", NULL}]

\* token && Expo.isExpoPushToken(token)
isExpoPushToken(token) == token # NULL

\* a handler that marks the alert as notified in the alerts table
handleAlertCreatedMarks ==
    /\ notifierQueue # <<>>
    /\ LET msg == Head(notifierQueue)
       IN  /\ notifierQueue' = Tail(notifierQueue)
           /\ notifierCalls' =
                IF msg.targetedOfficers = {} THEN notifierCalls
                ELSE notifierCalls \cup {msg}
           /\ dbAlerts' =
                IF dbAlerts[msg.alert.id] = NoAlert THEN dbAlerts
                ELSE [dbAlerts EXCEPT ![msg.alert.id].status = "notified"]
    /\ notifierOut' = NoPush
    /\ UNCHANGED <<wssClients, clientMetadata, subscribed, fetches,
                   published, queues, handled, wsLog, wsOut,
                   otherThanConsumerVars>>

\* handleAlertCreated(msg) up to its await: the message leaves the queue;
\* without targeted officers the handler returns, otherwise it asks the
\* Database Service for the officers
handleAlertCreated ==
    /\ notifierQueue # <<>>
    /\ LET msg == Head(notifierQueue)
       IN  /\ notifierQueue' = Tail(notifierQueue)
           /\ notifierCalls' =
                IF msg.targetedOfficers = {} THEN notifierCalls
                ELSE notifierCalls \cup {msg}
    /\ notifierOut' = NoPush
    /\ UNCHANGED <<wsVars, otherThanConsumerVars>>

\* the rest of handleAlertCreated: the answer of /police/by-badges, the
\* valid push tokens and expo.sendPushNotificationsAsync; an error of the
\* request is caught and logged
handleAlertCreatedPush(call, tokens, storeOk) ==
    /\ call \in notifierCalls
    /\ notifierCalls' = notifierCalls \ {call}
    /\ LET pushTokens == {o \in call.targetedOfficers :
                             isExpoPushToken(tokens[o])}
       IN  notifierOut' =
             IF ~storeOk \/ pushTokens = {} THEN NoPush
             ELSE [op |-> "push", to |-> pushTokens,
                   alertId |-> call.alert.id]
    /\ UNCHANGED <<notifierQueue, wsVars, otherThanConsumerVars>>

\* ---- loginOrRegisterFirefighter, src/services/auth-service/index.js
\* the request arrives: 400 without a unitNumber, else the first SELECT; the
\* row it finds is the answer
firefightersLogin(r, unitNumber, storeOk) ==
    /\ logins[r] = NoLogin
    /\ IF unitNumber = UNDEFINED
       THEN /\ loginOut' = [request |-> r, code |-> 400, unitNumber |-> NULL]
            /\ UNCHANGED logins
       ELSE IF ~storeOk
       THEN /\ loginOut' = [request |-> r, code |-> 500, unitNumber |-> NULL]
            /\ UNCHANGED logins
       ELSE IF unitNumber \in firefighterRows
       THEN /\ loginOut' = [request |-> r, code |-> 200,
                            unitNumber |-> unitNumber]
            /\ UNCHANGED logins
       ELSE /\ logins' = [logins EXCEPT ![r] = [pc |-> "insert",
                                                unitNumber |-> unitNumber]]
            /\ loginOut' = NoLoginOut
    /\ UNCHANGED <<firefighterRows, otherThanAuthVars>>

\* INSERT INTO firefighters (unitNumber, department): unitNumber is the
\* PRIMARY KEY, so the statement fails when the row is there by now, and the
\* request fails with it
firefightersLoginInsert(r, storeOk) ==
    /\ logins[r].pc = "insert"
    /\ IF storeOk /\ logins[r].unitNumber \notin firefighterRows
       THEN /\ firefighterRows' = firefighterRows \cup {logins[r].unitNumber}
            /\ logins' = [logins EXCEPT ![r].pc = "select"]
            /\ loginOut' = NoLoginOut
       ELSE /\ logins' = [logins EXCEPT ![r] = NoLogin]
            /\ loginOut' = [request |-> r, code |-> 500, unitNumber |-> NULL]
            /\ UNCHANGED firefighterRows
    /\ UNCHANGED otherThanAuthVars

\* the second SELECT and res.json(firefighter)
firefightersLoginAnswer(r, storeOk) ==
    /\ logins[r].pc = "select"
    /\ logins' = [logins EXCEPT ![r] = NoLogin]
    /\ loginOut' = IF storeOk
                   THEN [request |-> r, code |-> 200,
                         unitNumber |-> logins[r].unitNumber]
                   ELSE [request |-> r, code |-> 500, unitNumber |-> NULL]
    /\ UNCHANGED <<firefighterRows, otherThanAuthVars>>

AuthNext ==
    \/ \E r \in LoginRequests, u \in FireUnits \cup {UNDEFINED},
          ok \in BOOLEAN : firefightersLogin(r, u, ok)
    \/ \E r \in LoginRequests, ok \in BOOLEAN : firefightersLoginInsert(r, ok)
    \/ \E r \in LoginRequests, ok \in BOOLEAN : firefightersLoginAnswer(r, ok)

AuthSpec == Init /\ [][AuthNext]_vars

\* the WebSocket Service and the Notifier next to the writers of the alerts
\* table
ConsumersNext ==
    \/ WsNext
    \/ handleAlertCreated
    \/ \E call \in notifierCalls, tokens \in PushTokenTables,
          ok \in BOOLEAN : handleAlertCreatedPush(call, tokens, ok)

ConsumersSpec == Init /\ [][ConsumersNext]_vars

\* ----------------------- the message-queue client, src/unnamed/part_000
\* subscribe(routingKey, callback) of each subscriber: the key it binds its
\* queue with
mqBindingKey(s) ==
    IF s = "part_007" THEN <<"alert", "broadcast">>
    ELSE <<"alert", "created">>

\* the message of the n-th publish call
mqMessage(n, routingKey) == [seq |-> n, routingKey |-> routingKey]

\* initialize() of a process: await connect(), which throws when the broker
\* cannot be reached and sets the channel otherwise, and then subscribe()
\* in a process that subscribes: assertQueue('', {exclusive: true}) and
\* bindQueue
mqInitialize(p) ==
    /\ mqClients[p] = "new"
    /\ IF brokerUp
       THEN /\ mqClients' = [mqClients EXCEPT ![p] = "open"]
            /\ mqBound' = IF p \in MqSubscribers THEN mqBound \cup {p}
                          ELSE mqBound
       ELSE /\ mqClients' = [mqClients EXCEPT ![p] = "failed"]
            /\ UNCHANGED mqBound
    /\ UNCHANGED <<brokerUp, mqQueues, mqDelivered, mqSent, otherThanMqVars>>

\* the server stops accepting connections
brokerStop ==
    /\ brokerUp
    /\ brokerUp' = FALSE
    /\ UNCHANGED <<mqClients, mqBound, mqQueues, mqDelivered, mqSent,
                   otherThanMqVars>>

\* the server accepts connections again
brokerStart ==
    /\ ~brokerUp
    /\ brokerUp' = TRUE
    /\ UNCHANGED <<mqClients, mqBound, mqQueues, mqDelivered, mqSent,
                   otherThanMqVars>>

\* connection.on('close'): channel = null, connection = null and
\* setTimeout(connect, 5000); the broker deletes the exclusive queue of the
\* connection
mqOnClose(p) ==
    /\ mqClients[p] = "open"
    /\ mqClients' = [mqClients EXCEPT ![p] = "closed"]
    /\ mqBound' = mqBound \ {p}
    /\ mqQueues' = IF p \in MqSubscribers
                   THEN [mqQueues EXCEPT ![p] = <<>>]
                   ELSE mqQueues
    /\ UNCHANGED <<brokerUp, mqDelivered, mqSent, otherThanMqVars>>

\* the timer of setTimeout(connect, 5000) fires: connect() sets the channel
\* when the broker can be reached; otherwise it throws into the timer, and
\* nothing calls connect() again
mqRetry(p) ==
    /\ mqClients[p] = "closed"
    /\ mqClients' = [mqClients EXCEPT ![p] = IF brokerUp THEN "open"
                                             ELSE "stopped"]
    /\ UNCHANGED <<brokerUp, mqBound, mqQueues, mqDelivered, mqSent,
                   otherThanMqVars>>

\* the queues after an exchange that hands a message to one of the queues
\* bound with a matching key only
mqRoutedToOne(msg) ==
    LET matching == {s \in mqBound :
                        topicMatches(mqBindingKey(s), msg.routingKey)}
    IN  IF matching = {} THEN mqQueues
        ELSE LET s == CHOOSE t \in matching : TRUE
             IN  [mqQueues EXCEPT ![s] = Append(@, msg)]

\* the topic exchange: the queues after a message went to every queue that
\* is bound with a matching key
mqRouted(msg) ==
    [s \in MqSubscribers |->
        IF s \in mqBound /\ topicMatches(mqBindingKey(s), msg.routingKey)
        THEN Append(mqQueues[s], msg)
        ELSE mqQueues[s]]

\* publish(routingKey, message) in the Alerts Service: returns without a
\* channel, channel.publish otherwise; a message written while the broker is
\* down reaches no queue
mqPublish(routingKey) ==
    /\ mqSent < MaxMqMessages
    /\ mqClients[MqPublisher] # "new"
    /\ mqSent' = mqSent + 1
    /\ mqQueues' = IF mqClients[MqPublisher] = "open" /\ brokerUp
                   THEN mqRouted(mqMessage(mqSent + 1, routingKey))
                   ELSE mqQueues
    /\ UNCHANGED <<brokerUp, mqClients, mqBound, mqDelivered,
                   otherThanMqVars>>

\* channel.consume(q.queue, ..., {noAck: true}): the oldest message of the
\* queue of a subscriber leaves the queue and goes to its callback
mqConsume(s) ==
    /\ mqQueues[s] # <<>>
    /\ mqQueues' = [mqQueues EXCEPT ![s] = Tail(@)]
    /\ mqDelivered' = [mqDelivered EXCEPT ![s] = Append(@, Head(mqQueues[s]))]
    /\ UNCHANGED <<brokerUp, mqClients, mqBound, mqSent, otherThanMqVars>>

MqNext ==
    \/ \E p \in MqProcs : mqInitialize(p)
    \/ brokerStop
    \/ brokerStart
    \/ \E p \in MqProcs : mqOnClose(p)
    \/ \E p \in MqProcs : mqRetry(p)
    \/ \E k \in MqRoutingKeys : mqPublish(k)
    \/ \E s \in MqSubscribers : mqConsume(s)

MqSpec == Init /\ [][MqNext]_vars

\* the timer of a lost connection fires, and the broker hands over the
\* messages of a queue
MqFairness ==
    /\ \A p \in MqProcs : WF_vars(mqRetry(p))
    /\ \A s \in MqSubscribers : WF_vars(mqConsume(s))

MqFairSpec == MqSpec /\ MqFairness

\* ------------------------------------------------------------------ claims
Status(id) == alerts[id].status

Edges ==
    {<<"new", "accepted">>, <<"accepted", "resolved">>,
     <<"new", "timed_out">>, <<"new", "canceled">>,
     <<"accepted", "canceled">>}

\* the transition a request asks for is an edge from the status the row has
LegalRequest(op, status) ==
    \/ op = "accept" /\ status = "new"
    \/ op = "resolve" /\ status = "accepted"
    \/ op = "cancel" /\ status \in {"new", "accepted"}

\* the enrichment UPDATE of the alert has been executed
EnrichmentPersisted(id) ==
    \/ bg[id].pc = "publish"
    \/ bg[id].pc = "done" /\ bg[id].result # "updateFailed"

\* C1: every change of an alert's status is one of new->accepted,
\* accepted->resolved, new->timed_out, new->canceled, accepted->canceled, so
\* a status of resolved, timed_out or canceled never changes again.
C1_OnlyLegalEdges ==
    [][\A id \in AlertIds :
          (Exists(id) /\ alerts'[id] # NoAlert
              /\ alerts'[id].status # Status(id))
          => <<Status(id), alerts'[id].status>> \in Edges]_vars

\* C2: an Accept, Resolve or Cancel that asks for a transition that is no
\* edge from the current status leaves the stored record unchanged.
C2_IllegalRequestChangesNothing ==
    [][\A req \in RequestKinds :
          (/\ reqs' = reqs (+) SetToBag({req})
           /\ Exists(req.id)
           /\ ~LegalRequest(req.op, Status(req.id)))
          => alerts' = alerts]_vars

\* C3: no alert is timed_out with acceptedBy set: of a timeout scan and an
\* Accept on the same new alert only one is applied.
C3_NeverTimedOutAndAccepted ==
    \A id \in AlertIds :
        Exists(id) => ~(Status(id) = "timed_out" /\ alerts[id].acceptedBy # NULL)

\* C4: once acceptedBy is set by the Accept that succeeded, no later Accept
\* changes it.
C4_AcceptedByNeverChanges ==
    [][\A id \in AlertIds :
          (Exists(id) /\ alerts'[id] # NoAlert /\ alerts[id].acceptedBy # NULL)
          => alerts'[id].acceptedBy = alerts[id].acceptedBy]_vars

\* C5 as claimed: every alert whose Create succeeded has had exactly one
\* 'alert.created' event published once its background phase has ended.
C5_ExactlyOneCreatedEvent ==
    \A id \in AlertIds :
        bg[id].pc = "done" => Len(createdEvents[id]) = 1

\* C5 as amended: at most one 'alert.created' event is published per alert;
\* one is published exactly when the enrichment update succeeded, the record
\* was still there when it was read back and the channel was available; it is
\* published after the enrichment update and carries the category and the
\* responder set that the update persisted.
C5_AtMostOneCreatedAfterEnrichment ==
    \A id \in AlertIds :
        /\ Len(createdEvents[id]) <= 1
        /\ Len(createdEvents[id]) = 1
              <=> (bg[id].pc = "done" /\ bg[id].result = "published")
        /\ \A i \in 1..Len(createdEvents[id]) :
              /\ EnrichmentPersisted(id)
              /\ createdEvents[id][i].targetedOfficers = bg[id].targetedOfficers
              /\ createdEvents[id][i].alert.targetedOfficers
                    = bg[id].targetedOfficers
              /\ createdEvents[id][i].alert.category = sqlBind(bg[id].category)

C5_Witness ==
    \E id \in AlertIds :
        /\ Len(createdEvents[id]) = 1
        /\ createdEvents[id][1].alert.category = "Fire & Rescue"
        /\ createdEvents[id][1].targetedOfficers = {"728"}

\* C6: an alert that is new, with a deadline the clock reaches, and that is
\* never accepted, canceled or deleted, eventually becomes timed_out.
C6_NewAlertEventuallyTimesOut ==
    \A id \in AlertIds :
        (Exists(id) /\ Status(id) = "new"
            /\ alerts[id].timeoutTimestamp <= MaxTicks * TIMEOUT_MS)
        ~> (~Exists(id) \/ Status(id) \in {"timed_out", "accepted", "canceled"})

\* C7: a timeout scan flips to timed_out only alerts that are new with
\* deadline <= now at the moment of its write, and the ids it returns are
\* the alerts it flipped.
C7_ScanFlipsOnlyNewAndReturnsThem ==
    [][(sweep.pc = "update" /\ sweep'.pc = "idle")
          => /\ \A id \in AlertIds :
                   (Exists(id) /\ Status(id) # "timed_out"
                       /\ alerts'[id].status = "timed_out")
                   => (Status(id) = "new"
                          /\ alerts[id].timeoutTimestamp <= now)
             /\ sweep'.returned =
                   {id \in AlertIds : /\ Exists(id)
                                      /\ Status(id) = "new"
                                      /\ alerts'[id].status = "timed_out"}]_vars

C9_DefaultCategoryOnClassifierFailure ==
    \A id \in AlertIds :
        (Exists(id) /\ EnrichmentPersisted(id)
            /\ bg[id].aiBody \notin ValidCategories)
        => alerts[id].category = DEFAULT_CATEGORY

\* a step of the background phase failed
ClassifierFailed(id) == bg[id].pc \notin {"none", "classify"} /\ bg[id].aiBody = NULL
GeoMatcherFailed(id) == bg[id].geo = "failed"
UpdateFailed(id) == bg[id].result = "updateFailed"

\* C10 as claimed: after a failure of any enrichment step the alert, when no
\* request has touched it, has the default (or still unset) category and an
\* empty (or still unset) responder set.
C10_AnyFailureLeavesDefaults ==
    \A id \in AlertIds :
        (/\ bg[id].pc = "done"
         /\ ClassifierFailed(id) \/ GeoMatcherFailed(id) \/ UpdateFailed(id)
         /\ Exists(id)
         /\ Status(id) = "new")
        => /\ alerts[id].category \in {DEFAULT_CATEGORY, NULL}
           /\ alerts[id].targetedOfficers \in {{}, NullColumn}

\* C10 as amended: no step of the background phase removes the alert,
\* changes its status, acceptedBy or deadline, sends a response or changes
\* the response Create gave; a failed Classifier call leaves the default
\* category persisted, a failed Geo-Matcher call an empty responder set, and
\* a failed enrichment update leaves category and responder set unset.
C10_FailureDegradesOnlyItsOwnResult ==
    /\ [][(bg' # bg /\ nextId' = nextId)
            => /\ out'.code = 0
               /\ createResp' = createResp
               /\ \A id \in AlertIds :
                     Exists(id)
                     => /\ alerts'[id] # NoAlert
                        /\ alerts'[id].status = alerts[id].status
                        /\ alerts'[id].acceptedBy = alerts[id].acceptedBy
                        /\ alerts'[id].timestamp = alerts[id].timestamp
                        /\ alerts'[id].timeoutTimestamp
                              = alerts[id].timeoutTimestamp]_vars
    /\ [](\A id \in AlertIds :
            Exists(id)
            => /\ (EnrichmentPersisted(id) /\ ClassifierFailed(id))
                  => alerts[id].category = DEFAULT_CATEGORY
               /\ (EnrichmentPersisted(id) /\ GeoMatcherFailed(id))
                  => alerts[id].targetedOfficers = {}
               /\ UpdateFailed(id)
                  => /\ alerts[id].category = NULL
                     /\ alerts[id].targetedOfficers = NullColumn)

C10_Witness ==
    \E id \in AlertIds :
        /\ bg[id].pc = "done"
        /\ GeoMatcherFailed(id)
        /\ bg[id].aiBody = "Fire & Rescue"
        /\ Exists(id)
        /\ Status(id) = "new"
        /\ alerts[id].category = "Fire & Rescue"
        /\ alerts[id].targetedOfficers = {}

\* C11: the enrichment update writes the category and the responder set that
\* the background phase computed and nothing else: status, acceptedBy,
\* creation time and deadline keep the values they had, whatever Accept,
\* Resolve, Cancel or the timeout processor wrote before.
C11_EnrichmentWritesOnlyItsColumns ==
    [][\A id \in AlertIds :
          (bg[id].pc = "update" /\ bg'[id].pc # "update" /\ Exists(id))
          => /\ alerts'[id] # NoAlert
             /\ alerts'[id].status = alerts[id].status
             /\ alerts'[id].acceptedBy = alerts[id].acceptedBy
             /\ alerts'[id].timestamp = alerts[id].timestamp
             /\ alerts'[id].timeoutTimestamp = alerts[id].timeoutTimestamp
             /\ bg'[id].pc = "publish"
                => /\ alerts'[id].category = sqlBind(bg[id].category)
                   /\ alerts'[id].targetedOfficers = bg[id].targetedOfficers
             /\ bg'[id].pc = "done"
                => /\ alerts'[id].category = alerts[id].category
                   /\ alerts'[id].targetedOfficers
                         = alerts[id].targetedOfficers]_vars

C11_Witness ==
    \E id \in AlertIds :
        /\ bg[id].pc = "publish"
        /\ Exists(id)
        /\ Status(id) = "accepted"
        /\ alerts[id].acceptedBy = "551"
        /\ alerts[id].category = "Fire & Rescue"
        /\ alerts[id].targetedOfficers = {"728"}

\* C12: acceptedBy is unset while the status is new or timed_out and set
\* while it is accepted or resolved.
C12_AcceptedByMatchesStatus ==
    \A id \in AlertIds :
        Exists(id)
        => /\ Status(id) \in {"new", "timed_out"}
              => alerts[id].acceptedBy = NULL
           /\ Status(id) \in {"accepted", "resolved"}
              => alerts[id].acceptedBy # NULL

\* C13: an alert that is canceled or timed_out and has no responders keeps
\* an empty responder set: nothing writes a responder set to it.
C13_NoRespondersAfterTerminal ==
    [][\A id \in AlertIds :
          (/\ Exists(id)
           /\ Status(id) \in {"canceled", "timed_out"}
           /\ alerts[id].targetedOfficers \in {{}, NullColumn}
           /\ alerts'[id] # NoAlert)
          => alerts'[id].targetedOfficers \in {{}, NullColumn}]_vars

C18_DeletedAlertStaysGone ==
    [][\A id \in AlertIds :
          /\ (deleteAlert(id, TRUE) /\ Exists(id))
             => (alerts'[id] = NoAlert /\ out' = Out("delete", 204, channel))
          /\ (~Exists(id) /\ id < nextId)
             => /\ alerts'[id] = NoAlert
                /\ createdEvents'[id] = createdEvents[id]
                /\ (sweep.pc = "update" /\ sweep'.pc = "idle")
                   => id \notin sweep'.returned]_vars

\* C19: a deleteAlert of an id without a row leaves the table unchanged and
\* publishes nothing.
C19_DeleteOfAbsentPublishesNothing ==
    [][\A id \in AlertIds :
          (deleteAlert(id, TRUE) /\ ~Exists(id))
          => (alerts' = alerts /\ ~out'.broadcast)]_vars

\* C15: once an alert of the monolith is accepted or canceled, no timer
\* makes it timed_out or changes its searchRadius or targetedOfficers.
C15_NoTimerEffectAfterAcceptOrCancel ==
    [][\A id \in MonoIds :
          (/\ MonoExists(id)
           /\ monoAlerts[id].status \in {"accepted", "canceled"}
           /\ monoAlerts'[id] # NoAlert)
          => /\ monoAlerts'[id].status # "timed_out"
             /\ monoAlerts'[id].searchRadius = monoAlerts[id].searchRadius
             /\ monoAlerts'[id].targetedOfficers
                   = monoAlerts[id].targetedOfficers]_vars

\* C20: the id of a new alert is the value of the AUTOINCREMENT counter,
\* which is larger than every id given before, whether the alert with that
\* id is still in the table or was deleted.
C20_IdsAreNeverReused ==
    /\ [](\A id \in MonoIds :
            (MonoExists(id) \/ alertTimers[id] # NoTimers) => id < monoNextId)
    /\ [][\A id \in MonoIds :
            (~MonoExists(id) /\ monoAlerts'[id] # NoAlert)
            => /\ id = monoNextId
               /\ alertTimers[id] = NoTimers
               /\ monoNextId' = monoNextId + 1]_vars

C20_Witness ==
    /\ ~MonoExists(1)
    /\ alertTimers[1] # NoTimers
    /\ MonoExists(2)

\* --------------------------------------------------- claims on the Geo-Matcher
\* the set of the elements of a sequence
Range(seq) == {seq[i] : i \in DOMAIN seq}

\* the pool the Geo-Matcher scans for a category of a request
SelectedPool(category) ==
    IF category = "Fire & Rescue" THEN firefighters ELSE police

Delivered(c, i) == \E k \in DOMAIN wsLog[c] : wsLog[c][k].seq = i

\* C23: every event the Alerts Service or another publisher published for an
\* alert while a connection was open and subscribed to the topic of the alert
\* has been sent on that connection, once the queues of the WebSocket Service
\* are empty and as long as the connection is still open and subscribed.
C23_EveryEventReachesItsSubscribers ==
    (\A s \in Subscriptions : queues[s] = <<>>) =>
        \A i \in DOMAIN published : \A c \in published[i].subscribers :
            (/\ wssClients[c] = "open"
             /\ Topic(published[i].geohash) \in clientMetadata[c].topics)
                => Delivered(c, i)

\* C24: a sendInitialAlerts that ran to its end for a connection that is still
\* open sent a snapshot on it, an empty one when no alert matches, and a
\* snapshot holds only new or accepted alerts of the topics of the subscribe
\* message.
C24_EverySubscribeIsAnsweredWithASnapshot ==
    (wsOut.op = "sendInitialAlerts" /\ wssClients[wsOut.ws] = "open") =>
        /\ \E m \in wsOut.sends :
              m.to = wsOut.ws /\ m.type = "initial_alerts"
        /\ \A m \in wsOut.sends : \A a \in m.alerts :
              /\ a.status \in {"new", "accepted"}
              /\ \E k \in DOMAIN wsOut.topics :
                    wsOut.topics[k] = Topic(a.geohash)

\* C25: on every connection an incremental event is sent only after a
\* snapshot was sent (the connections of the model subscribe to one topic, so
\* the snapshot is that of the topic of the event).
C25_SnapshotBeforeIncrementalEvents ==
    \A c \in Conns : \A k \in DOMAIN wsLog[c] :
        wsLog[c][k].type # "initial_alerts" =>
            \E j \in 1..(k - 1) : wsLog[c][j].type = "initial_alerts"

\* C26: every alert in a message sent on a connection whose role is police is
\* new and targeted to the responder of the connection, accepted by that
\* responder, or in a terminal status.
C26_ResponderReceivesOnlyItsAlerts ==
    \A m \in wsOut.sends :
        clientMetadata[m.to].role = "police" =>
            \A a \in m.alerts :
                \/ /\ a.status = "new"
                   /\ clientMetadata[m.to].mobile \in a.targetedOfficers
                \/ /\ a.status = "accepted"
                   /\ a.acceptedBy = clientMetadata[m.to].mobile
                \/ a.status \in {"resolved", "canceled", "timed_out"}

\* C27: once an auth message set the role and the identity of a connection,
\* no step changes them while the connection has its entry.
C27_IdentityIsSetOnce ==
    [][\A c \in Conns :
          (/\ clientMetadata[c] # NoMetadata
           /\ clientMetadata[c].role # UNDEFINED
           /\ clientMetadata'[c] # NoMetadata)
              => /\ clientMetadata'[c].role = clientMetadata[c].role
                 /\ clientMetadata'[c].mobile = clientMetadata[c].mobile]_vars

C29_NoAlertDataBeforeAuth ==
    \A m \in wsOut.sends : clientMetadata[m.to].role # UNDEFINED

C37_ReconnectsOnceBrokerIsReachable ==
    \A p \in MqProcs :
        (mqClients[p] \in {"closed", "stopped"} /\ brokerUp)
        ~> (mqClients[p] = "open" \/ ~brokerUp)

\* C39: a subscriber whose client has an open channel, at the first connect
\* or after a reconnect, gets every message that is published with a key
\* matching its binding
C39_SubscriberReceivesAfterReconnect ==
    [][\A k \in MqRoutingKeys :
        (mqPublish(k) /\ mqClients[MqPublisher] = "open" /\ brokerUp)
        => \A s \in MqSubscribers :
            (mqClients[s] = "open" /\ topicMatches(mqBindingKey(s), k))
            => mqQueues'[s] = Append(mqQueues[s], mqMessage(mqSent + 1, k))]_vars

C33_TimeoutReportedOnceAndAcceptConflicts ==
    [][/\ \A ok \in BOOLEAN :
            findAndUpdateTimeouts(ok)
            => /\ \A id \in sweep'.returned :
                    /\ Exists(id)
                    /\ Status(id) = "new"
                    /\ alerts'[id].status = "timed_out"
               /\ out'.broadcast = (sweep'.returned # {})
       /\ \A ok \in BOOLEAN :
            (processTimeouts(ok) \/ findAndUpdateTimeouts(ok))
            => (alerts' = alerts => ~out'.broadcast)
       /\ \A id \in AlertIds, o \in Officers :
            (acceptAlert(id, o, TRUE) /\ Exists(id)
                /\ Status(id) = "timed_out")
            => /\ alerts' = alerts
               /\ out'.code = 409]_vars

\* C34: the update of the escalation finds the alert still new, that is not
\* yet timed out, and not yet escalated; it writes the radius 10 and the
\* officers within 10 km in one step and leaves every other column of the
\* row, status and acceptedBy among them, as it was
C34_EscalationOnceWhileNew ==
    [][\A id \in MonoIds :
        (escalationTimerUpdate(id, TRUE) /\ MonoExists(id))
        => /\ monoAlerts[id].status = "new"
           /\ monoAlerts[id].searchRadius = 5
           /\ monoAlerts'[id] =
                [monoAlerts[id] EXCEPT
                    !.searchRadius = 10,
                    !.targetedOfficers =
                        officersWithin(monoAlerts[id].location, 10)]]_vars

\* ------------------------------------------ claims on the routing of events
\* C38: whenever an event message is sent on a connection, the connection is
\* open at that moment and its topic set holds the topic of the geohash of
\* the event; the topics another connection holds, and topics the connection
\* has unsubscribed from, cause no send
C38_EventsGoOnlyToCurrentSubscribers ==
    [][\A c \in AllConns :
        (/\ Len(wsLog'[c]) = Len(wsLog[c]) + 1
         /\ wsLog'[c][Len(wsLog'[c])].type \in Subscriptions)
        => /\ wssClients[c] = "open"
           /\ clientMetadata[c] # NoMetadata
           /\ Topic(published[wsLog'[c][Len(wsLog'[c])].seq].geohash)
                 \in clientMetadata[c].topics]_vars

\* the latest step handled an event and sent it on the connection that holds
\* its topic, while the other connection is open, had subscribed to the topic
\* and got its snapshot, has unsubscribed and got nothing
C38_Witness ==
    /\ wsOut.op = "routeAlertToSubscribers"
    /\ \E m \in wsOut.sends : m.to = 1
    /\ wssClients[1] = "open"
    /\ wssClients[2] = "open"
    /\ Delivered(1, 1)
    /\ \E k \in DOMAIN wsLog[2] : wsLog[2][k].type = "initial_alerts"
    /\ clientMetadata[2].topics = {}
    /\ ~Delivered(2, 1)

\* --------------------------------------------- claims on the two consumers
\* C35: no handler of the WebSocket Service, for a client message or for an
\* event of the queue, and no step of handleAlertCreated of the Notifier
\* changes a column of a row of the alerts table, adds a row or removes one
C35_ConsumersOnlyReadAlerts ==
    [][(\/ \E ws \in Conns : handleConnection(ws)
        \/ \E ws \in Conns, payload \in AuthPayloads : onAuth(ws, payload)
        \/ \E ws \in Conns, topics \in TopicLists : onSubscribe(ws, topics)
        \/ \E ws \in Conns, topics \in TopicLists : onUnsubscribe(ws, topics)
        \/ \E ws \in Conns : onClose(ws)
        \/ \E f \in fetches, ok \in BOOLEAN : byGeohashes(f, ok)
        \/ \E f \in fetches : sendInitialAlerts(f)
        \/ \E sub \in Subscriptions : consume(sub)
        \/ handleAlertCreated
        \/ \E call \in notifierCalls, tokens \in PushTokenTables,
              ok \in BOOLEAN : handleAlertCreatedPush(call, tokens, ok))
       => dbAlerts' = dbAlerts]_vars

\* the Notifier has pushed for an alert that is in the table, and the
\* WebSocket Service has sent on a connection
C35_Witness ==
    /\ notifierOut.op = "push"
    /\ dbAlerts[notifierOut.alertId] # NoAlert
    /\ \E c \in Conns : wsLog[c] # <<>>

\* -------------------------------------------- claims on the login
\* C36: a login with a unit number whose statements the store runs ends with
\* the row of that unit number as the answer, never with an error, whether
\* or not another login with the same unit number runs at the same time, and
\* a row that is in the table stays
C36_LoginIsIdempotent ==
    [][/\ \A r \in LoginRequests :
            (firefightersLoginInsert(r, TRUE) \/ firefightersLoginAnswer(r, TRUE))
            => /\ loginOut'.code # 500
               /\ logins[r].unitNumber \in firefighterRows'
       /\ firefighterRows \subseteq firefighterRows']_vars

\* ---------------------------------- claims on the broadcasts of the monolith
\* no handler of the monolith is between two of its awaits and no
\* broadcastAlerts call awaits its SELECT
Quiescent ==
    /\ broadcasts = 0
    /\ monoReqs = {}
    /\ \A id \in MonoIds : alertTimers[id].timeoutTimer # "unset"

\* C40: an 'alerts' message sent on a connection holds the rows of the table
\* as they are when it is sent, filtered for the role of the client, so no
\* older list follows a newer one; and when nothing is under way, the latest
\* list of every open client is the table filtered for its role
C40_LastListIsTheStore ==
    /\ [][\A c \in MonoConns :
            lastAlerts'[c] # lastAlerts[c]
            => lastAlerts'[c] =
                 [sent |-> TRUE,
                  payload |-> alertsToSend(monoMetadata[c],
                                           formattedAlerts)]]_vars
    /\ [](Quiescent
          => \A c \in MonoConns :
                (clients[c] = "open" /\ monoMetadata[c] # NoMetadata
                    /\ lastAlerts[c].sent)
                => lastAlerts[c].payload =
                      alertsToSend(monoMetadata[c], formattedAlerts))

====
